---- MODULE Spec2Model ----
(***************************************************************************)
(* A model of the FIT activity-file parser of StravaAIAnalyzerFlask        *)
(* (src/fit_parser.py): the message bucketing loop of                      *)
(* parse_fit_file_comprehensive, the projection _generate_strava_format,   *)
(* the split calculator _calculate_splits_from_gps, the entry point        *)
(* parse_fit_file, the exporter export_comprehensive_data and the          *)
(* validator validate_fit_file; and of three parts of the web application  *)
(* (src/app.py): the rate-limit gate of api_analyze_activity, the token    *)
(* functions get_valid_token and get_athlete_token, and the request        *)
(* handler upload_fit_file, which calls the validator and the parser.      *)
(*                                                                         *)
(* Python values are tagged records: None, numbers, strings, datetimes.    *)
(* A dict is a function whose DOMAIN is its key set, so "k in d" is        *)
(* k \in DOMAIN d.  Distances are whole metres, times whole seconds.       *)
(***************************************************************************)
EXTENDS Integers, Sequences, FiniteSets, TLC

(***************************************************************************)
(* Python values                                                           *)
(***************************************************************************)
None == [k |-> "none"]
Num(n) == [k |-> "num", n |-> n]
\* a str; an ISO-8601 timestamp is the str whose text is "T" (no designator)
\* or "TZ" (trailing 'Z') and whose t is the instant in seconds
Str(s) == [k |-> "str", s |-> s, t |-> 0]
IsoStr(t, z) == [k |-> "str", s |-> IF z THEN "TZ" ELSE "T", t |-> t]
Datetime(t) == [k |-> "datetime", t |-> t]
\* a tuple of numbers (the decoder's rendering of an array field); s is its
\* str() form
Tuple(s) == [k |-> "tuple", s |-> s]
\* a value of a type json cannot encode (datetime.time, bytes, ...); s is its
\* str() form
Opaque(s) == [k |-> "opaque", s |-> s]

IsNone(v) == "k" \in DOMAIN v /\ v.k = "none"
IsStr(v) == v.k = "str"
IsNum(v) == v.k = "num"
\* Python truthiness of the values the parser tests with "and value"
Truthy(v) ==
    CASE v.k = "none" -> FALSE
      [] v.k = "num" -> v.n # 0
      [] v.k = "str" -> v.s # ""
      [] v.k = "bool" -> v.b
      [] OTHER -> TRUE

\* datetime.isoformat() of the naive datetimes the decoder delivers
isoformat(v) == IsoStr(v.t, FALSE)
\* str(x) of a non-native value
str(v) == Str(v.s)
\* s.endswith('Z')
endswithZ(v) == v.s = "TZ"
\* s + 'Z'
appendZ(v) == IF v.s = "T" THEN IsoStr(v.t, TRUE) ELSE [v EXCEPT !.s = v.s \o "Z"]
\* s.replace('Z', '') on the strings the parser applies it to
replaceZ(v) == IF v.s \in {"T", "TZ"} THEN IsoStr(v.t, FALSE) ELSE v
\* datetime.fromisoformat(s) succeeds
IsIsoParsable(v) == IsStr(v) /\ v.s = "T"
\* datetime.fromisoformat(s), in seconds
fromisoformat(v) == v.t

\* One decoded field: fitparse's FieldData (value, units, raw_value); units
\* is a str or None, raw_value what was read from the file before any
\* conversion: a number, a str, None or a tuple of numbers
Fld(v, u, r) == [value |-> v, units |-> u, raw_value |-> r]
\* One decoded message: fitparse's DataMessage (name, fields by name)
Msg(name, fields) == [name |-> name, fields |-> fields]

(***************************************************************************)
(* Message Model Builder: the loop body of parse_fit_file_comprehensive    *)
(***************************************************************************)
\* the named buckets of raw_data (every key except other_messages); the
\* decoder names a message after the FIT profile or "unknown_<n>", so it
\* never delivers a message called other_messages
KnownBuckets ==
    {"file_id", "file_creator", "device_info", "session", "lap", "record",
     "event", "hrv", "segment", "length", "hr_zone", "power_zone", "sport",
     "workout", "workout_step", "activity", "climb_pro", "developer_data",
     "field_description"}

EmptyDict == [x \in {} |-> None]

\* comprehensive_data['raw_data'] as first built
InitRawData ==
    [buckets |-> [b \in KnownBuckets |-> <<>>], other_messages |-> EmptyDict]

\* fault variant: only datetimes are converted
ConvertValueDatetimeOnly(v) ==
    IF v.k = "datetime" THEN isoformat(v) ELSE v

\* the conversion of one field value before it is stored
ConvertValue(v) ==
    IF v.k = "datetime" THEN isoformat(v)
    ELSE IF v.k \notin {"str", "num", "bool", "none"} THEN str(v)
    ELSE v

\* record_dict: every field of the message, value converted
RecordDict(m) ==
    [f \in DOMAIN m.fields |->
        [value |-> ConvertValue(m.fields[f].value),
         units |-> m.fields[f].units,
         raw_value |-> m.fields[f].raw_value]]

\* fault variant: the counter is set to 1 on every message instead of
\* only on the first of its type
CountMessageRestarts(counts, name) ==
    [n \in DOMAIN counts \cup {name} |-> IF n = name THEN 1 ELSE counts[n]]

\* message_counts after one more message called name
CountMessage(counts, name) ==
    IF name \notin DOMAIN counts
    THEN [n \in DOMAIN counts \cup {name} |->
              IF n = name THEN 1 ELSE counts[n]]
    ELSE [counts EXCEPT ![name] = @ + 1]

\* fault variant of StoreMessage: an unknown type's list is re-created on
\* every message, so only the last message of the type is kept
StoreMessageResetsList(raw, name, rd) ==
    IF name \in KnownBuckets
    THEN [raw EXCEPT !.buckets[name] = Append(@, rd)]
    ELSE [raw EXCEPT !.other_messages =
              [n \in DOMAIN raw.other_messages \cup {name} |->
                  IF n = name THEN <<rd>> ELSE raw.other_messages[n]]]

\* raw_data after record_dict rd of a message called name is stored
StoreMessage(raw, name, rd) ==
    IF name \in KnownBuckets
    THEN [raw EXCEPT !.buckets[name] = Append(@, rd)]
    ELSE [raw EXCEPT !.other_messages =
              [n \in DOMAIN raw.other_messages \cup {name} |->
                  IF n \in DOMAIN raw.other_messages
                  THEN IF n = name
                       THEN Append(raw.other_messages[n], rd)
                       ELSE raw.other_messages[n]
                  ELSE <<rd>>]]

(***************************************************************************)
(* Domain Projector: _generate_strava_format                               *)
(***************************************************************************)
\* d.get(field, {}).get('value', default): the stored value, also when None
GetValue(d, field, default) ==
    IF field \in DOMAIN d THEN d[field].value ELSE default

\* fault variant: the sport name is looked up as it is spelled
lowerAsIs(s) == s

\* s.lower() on the sport names the decoder delivers
lower(s) ==
    CASE s \in {"running", "Running", "RUNNING"} -> "running"
      [] s \in {"cycling", "Cycling", "CYCLING"} -> "cycling"
      [] s \in {"walking", "Walking"} -> "walking"
      [] s \in {"hiking", "Hiking"} -> "hiking"
      [] s \in {"swimming", "Swimming"} -> "swimming"
      [] s \in {"generic", "Generic"} -> "generic"
      [] s \in {"rowing", "Rowing"} -> "rowing"
      [] OTHER -> s

\* fault variant: sport_map.get(key, 'Workout')
sport_mapDefaultWorkout(key) ==
    CASE key = "running" -> "Run"
      [] key = "cycling" -> "Ride"
      [] key = "walking" -> "Walk"
      [] key = "hiking" -> "Hike"
      [] key = "swimming" -> "Swim"
      [] OTHER -> "Workout"

\* sport_map.get(key, 'Run')
sport_map(key) ==
    CASE key = "running" -> "Run"
      [] key = "cycling" -> "Ride"
      [] key = "walking" -> "Walk"
      [] key = "hiking" -> "Hike"
      [] key = "swimming" -> "Swim"
      [] key = "generic" -> "Workout"
      [] OTHER -> "Run"

\* fault variant: the last session message is the one read
LastSession(raw) ==
    IF raw.buckets["session"] # <<>>
    THEN raw.buckets["session"][Len(raw.buckets["session"])]
    ELSE EmptyDict

\* the first session message, or the empty dict when there is none (every
\* session read is guarded by "if raw_data['session']")
FirstSession(raw) ==
    IF raw.buckets["session"] # <<>> THEN raw.buckets["session"][1]
    ELSE EmptyDict

\* activity_data[strava_field] after the field_mapping loop
SessionMetric(raw, fit_field, default) ==
    GetValue(FirstSession(raw), fit_field, default)

\* the has_heartrate / has_power flag: some listed field present and truthy
SessionFlag(raw, fit_fields) ==
    \E f \in fit_fields :
        /\ f \in DOMAIN FirstSession(raw)
        /\ Truthy(FirstSession(raw)[f].value)

ActivityType(raw) ==
    LET session == FirstSession(raw) IN
    IF "sport" \in DOMAIN session /\ IsStr(session["sport"].value)
    THEN sport_map(lower(session["sport"].value.s))
    ELSE "Run"

\* fault variant: the file_id's time_created is taken before the session's
\* start_time
StartSourceFileFirst(raw) ==
    LET session == FirstSession(raw)
        file_id == IF raw.buckets["file_id"] # <<>>
                   THEN raw.buckets["file_id"][1] ELSE EmptyDict
    IN  IF "time_created" \in DOMAIN file_id
           /\ IsStr(file_id["time_created"].value)
        THEN file_id["time_created"].value
        ELSE IF "start_time" \in DOMAIN session
                /\ IsStr(session["start_time"].value)
             THEN session["start_time"].value
             ELSE None

\* the timestamp start_date / start_date_local are made from: the session's
\* start_time when it is a str, else the first file_id's time_created when it
\* is a str, else None
StartSource(raw) ==
    LET session == FirstSession(raw)
        fromSession ==
            IF "start_time" \in DOMAIN session /\ IsStr(session["start_time"].value)
            THEN session["start_time"].value ELSE None
        file_id == IF raw.buckets["file_id"] # <<>>
                   THEN raw.buckets["file_id"][1] ELSE EmptyDict
    IN  IF ~IsNone(fromSession) THEN fromSession
        ELSE IF "time_created" \in DOMAIN file_id
                /\ IsStr(file_id["time_created"].value)
             THEN file_id["time_created"].value
             ELSE None

StartDate(raw) ==
    LET src == StartSource(raw) IN
    IF IsNone(src) THEN None
    ELSE IF endswithZ(src) THEN src ELSE appendZ(src)

StartDateLocal(raw) ==
    LET src == StartSource(raw) IN
    IF IsNone(src) THEN None ELSE replaceZ(src)

\* the first device_info message's field, else None
DeviceField(raw, field) ==
    IF raw.buckets["device_info"] # <<>>
    THEN GetValue(raw.buckets["device_info"][1], field, None)
    ELSE None

\* field_map of the record loop, in the dict's iteration order: a later
\* entry for the same gps field overwrites an earlier one
field_map ==
    << <<"timestamp", "time">>, <<"position_lat", "lat">>,
       <<"position_long", "lng">>, <<"altitude", "altitude">>,
       <<"enhanced_altitude", "altitude">>, <<"distance", "distance">>,
       <<"speed", "speed">>, <<"enhanced_speed", "speed">>,
       <<"heart_rate", "heartrate">>, <<"cadence", "cadence">>,
       <<"power", "watts">>, <<"temperature", "temp">>, <<"grade", "grade">> >>

\* 180.0 / 2**31 as a quotient in lowest terms
DegreesPerSemicircle == [num |-> 180 \div 4, den |-> 2^29]

\* value * (180.0 / 2**31): the product, kept as its two factors because it
\* is not a whole number
SemicirclesToDegrees(v) == [k |-> "num", n |-> v.n, times |-> DegreesPerSemicircle]

\* the entries of field_map whose fit field the record carries
PresentEntries(record) ==
    {i \in 1..Len(field_map) : field_map[i][1] \in DOMAIN record}

SetMax(S) == CHOOSE x \in S : \A y \in S : y <= x
SetMin(S) == CHOOSE x \in S : \A y \in S : x <= y

\* gps_point built from one record message
\* fault variant: the first field_map entry of a gps field wins
GpsPointStandardFirst(record) ==
    LET present == PresentEntries(record)
        keys == {field_map[i][2] : i \in present}
    IN  [g \in keys |->
            LET i == SetMin({j \in present : field_map[j][2] = g})
                fit_field == field_map[i][1]
                value == record[fit_field].value
            IN  IF fit_field \in {"position_lat", "position_long"} /\ IsNum(value)
                THEN SemicirclesToDegrees(value)
                ELSE value]

GpsPoint(record) ==
    LET present == PresentEntries(record)
        keys == {field_map[i][2] : i \in present}
    IN  [g \in keys |->
            LET i == SetMax({j \in present : field_map[j][2] = g})
                fit_field == field_map[i][1]
                value == record[fit_field].value
            IN  IF fit_field \in {"position_lat", "position_long"} /\ IsNum(value)
                THEN SemicirclesToDegrees(value)
                ELSE value]

RECURSIVE GpsTrackFrom(_, _)
GpsTrackFrom(records, i) ==
    IF i > Len(records) THEN <<>>
    ELSE LET gps_point == GpsPoint(records[i]) IN
         (IF DOMAIN gps_point # {} THEN <<gps_point>> ELSE <<>>)
            \o GpsTrackFrom(records, i + 1)

\* activity_data['gps_track']
GpsTrack(raw) == GpsTrackFrom(raw.buckets["record"], 1)

\* elevations: the altitude of every point that has the key
RECURSIVE ElevationsFrom(_, _)
ElevationsFrom(track, i) ==
    IF i > Len(track) THEN <<>>
    ELSE (IF "altitude" \in DOMAIN track[i] THEN <<track[i]["altitude"]>> ELSE <<>>)
            \o ElevationsFrom(track, i + 1)

Elevations(raw) == ElevationsFrom(GpsTrack(raw), 1)

\* max(elevations) / min(elevations) raise TypeError: two or more values, one
\* of them None
ElevationsRaise(elevations) ==
    /\ Len(elevations) >= 2
    /\ \E i \in 1..Len(elevations) : ~IsNum(elevations[i])

\* fault variant: the first altitude stands for the highest
ElevHighFirst(elevations) ==
    IF elevations = <<>> THEN None ELSE elevations[1]

ElevHigh(elevations) ==
    IF elevations = <<>> THEN None
    ELSE IF Len(elevations) = 1 THEN elevations[1]
    ELSE Num(SetMax({elevations[i].n : i \in 1..Len(elevations)}))

ElevLow(elevations) ==
    IF elevations = <<>> THEN None
    ELSE IF Len(elevations) = 1 THEN elevations[1]
    ELSE Num(SetMin({elevations[i].n : i \in 1..Len(elevations)}))

\* f"Lap {n}" / f"Segment {n}"
Numbered(label, n) == [k |-> "str", s |-> label, t |-> n]

LapData(lap, lap_idx) ==
    [id |-> lap_idx + 1,
     name |-> Numbered("Lap", lap_idx + 1),
     elapsed_time |-> GetValue(lap, "total_elapsed_time", Num(0)),
     moving_time |-> GetValue(lap, "total_timer_time", Num(0)),
     distance |-> GetValue(lap, "total_distance", Num(0)),
     start_index |-> GetValue(lap, "start_time", None),
     end_index |-> GetValue(lap, "timestamp", None),
     average_speed |-> GetValue(lap, "avg_speed", Num(0)),
     max_speed |-> GetValue(lap, "max_speed", Num(0)),
     average_heartrate |-> GetValue(lap, "avg_heart_rate", None),
     max_heartrate |-> GetValue(lap, "max_heart_rate", None),
     average_cadence |-> GetValue(lap, "avg_cadence", None),
     average_watts |-> GetValue(lap, "avg_power", None),
     max_watts |-> GetValue(lap, "max_power", None),
     total_elevation_gain |-> GetValue(lap, "total_ascent", Num(0)),
     calories |-> GetValue(lap, "total_calories", Num(0)),
     intensity |-> GetValue(lap, "intensity", Str("active")),
     lap_trigger |-> GetValue(lap, "lap_trigger", Str("manual"))]

SegData(segment, seg_idx) ==
    [id |-> seg_idx + 1,
     name |-> GetValue(segment, "name", Numbered("Segment", seg_idx + 1)),
     elapsed_time |-> GetValue(segment, "total_elapsed_time", Num(0)),
     distance |-> GetValue(segment, "total_distance", Num(0)),
     average_speed |-> GetValue(segment, "avg_speed", Num(0)),
     start_index |-> GetValue(segment, "start_time", None),
     end_index |-> GetValue(segment, "timestamp", None)]

\* fault variant: the lap's id is its index
LapsFromZero(raw) ==
    [i \in 1..Len(raw.buckets["lap"]) |->
        [LapData(raw.buckets["lap"][i], i - 1) EXCEPT !.id = i - 1]]

Laps(raw) ==
    [i \in 1..Len(raw.buckets["lap"]) |-> LapData(raw.buckets["lap"][i], i - 1)]

Segments(raw) ==
    [i \in 1..Len(raw.buckets["segment"]) |->
        SegData(raw.buckets["segment"][i], i - 1)]

HrZones(raw) ==
    [i \in 1..Len(raw.buckets["hr_zone"]) |->
        [min |-> GetValue(raw.buckets["hr_zone"][i], "low_bpm", None),
         max |-> GetValue(raw.buckets["hr_zone"][i], "high_bpm", None)]]

PowerZones(raw) ==
    [i \in 1..Len(raw.buckets["power_zone"]) |->
        [min |-> GetValue(raw.buckets["power_zone"][i], "low_value", None),
         max |-> GetValue(raw.buckets["power_zone"][i], "high_value", None)]]

(***************************************************************************)
(* Split calculator: _calculate_splits_from_gps                            *)
(***************************************************************************)
\* a float that is a quotient of two whole numbers
Rat(num, den) == [num |-> num, den |-> den]
RatEq(a, b) == a.num * b.den = b.num * a.den

\* the bucket sizes 1609.34 and 1000.0 metres, in hundredths of a metre
MileSplit == 160934
KmSplit == 100000

\* point.get('distance', 0)
PointDistance(point) ==
    IF "distance" \in DOMAIN point THEN point["distance"] ELSE Num(0)

\* elapsed_time between two boundary points: 0 unless both carry a time that
\* fromisoformat parses (any exception is swallowed by the bare except)
SplitElapsed(split_start, split_end) ==
    IF /\ "time" \in DOMAIN split_start
       /\ "time" \in DOMAIN split_end
       /\ IsStr(split_start["time"]) /\ IsStr(split_end["time"])
       /\ IsIsoParsable(replaceZ(split_start["time"]))
       /\ IsIsoParsable(replaceZ(split_end["time"]))
    THEN fromisoformat(replaceZ(split_end["time"]))
            - fromisoformat(replaceZ(split_start["time"]))
    ELSE 0

\* split_end['altitude'] - split_start['altitude'] raises TypeError
ElevationDiffRaises(split_start, split_end) ==
    /\ "altitude" \in DOMAIN split_end
    /\ "altitude" \in DOMAIN split_start
    /\ (~IsNum(split_end["altitude"]) \/ ~IsNum(split_start["altitude"]))

ElevationDiff(split_start, split_end) ==
    IF "altitude" \in DOMAIN split_end /\ "altitude" \in DOMAIN split_start
    THEN split_end["altitude"].n - split_start["altitude"].n
    ELSE 0

\* the indices (0-based) in from..to whose point has a non-None heartrate
HrIndices(gps_track, from, to) ==
    {j \in from..to :
        /\ "heartrate" \in DOMAIN gps_track[j + 1]
        /\ ~IsNone(gps_track[j + 1]["heartrate"])}

RECURSIVE SumHr(_, _)
SumHr(gps_track, idx) ==
    IF idx = {} THEN 0
    ELSE LET j == CHOOSE x \in idx : TRUE
         IN  gps_track[j + 1]["heartrate"].n + SumHr(gps_track, idx \ {j})

\* fault variant: the slice begins after the start boundary
SplitAvgHrAfterStart(gps_track, split_start_index, i) ==
    LET idx == HrIndices(gps_track, split_start_index + 1, i) IN
    IF idx = {} THEN None
    ELSE [k |-> "num", num |-> SumHr(gps_track, idx), den |-> Cardinality(idx)]

\* avg_hr over gps_track[split_start_index : i + 1]
SplitAvgHr(gps_track, split_start_index, i) ==
    LET idx == HrIndices(gps_track, split_start_index, i) IN
    IF idx = {} THEN None
    ELSE [k |-> "num", num |-> SumHr(gps_track, idx), den |-> Cardinality(idx)]

\* fault variant: the speed is the bucket size over the elapsed time
MakeSplitNominalSpeed(gps_track, size, i, current_split, split_start_index) ==
    LET split_start == gps_track[split_start_index + 1]
        split_end == gps_track[i + 1]
        elapsed_time == SplitElapsed(split_start, split_end)
    IN  [distance |-> Rat(size, 100),
         elapsed_time |-> elapsed_time,
         moving_time |-> elapsed_time,
         split |-> current_split,
         average_speed |-> IF elapsed_time > 0
                           THEN Rat(size, 100 * elapsed_time)
                           ELSE Rat(0, 1),
         elevation_difference |-> ElevationDiff(split_start, split_end),
         average_heartrate |-> SplitAvgHr(gps_track, split_start_index, i),
         pace_zone |-> 0]

\* the split closed at point i (0-based) of the walk
MakeSplit(gps_track, size, i, current_split, split_start_index) ==
    LET split_start == gps_track[split_start_index + 1]
        split_end == gps_track[i + 1]
        split_distance == PointDistance(split_end).n - PointDistance(split_start).n
        elapsed_time == SplitElapsed(split_start, split_end)
    IN  [distance |-> Rat(size, 100),
         elapsed_time |-> elapsed_time,
         moving_time |-> elapsed_time,
         split |-> current_split,
         average_speed |-> IF elapsed_time > 0
                           THEN Rat(split_distance, elapsed_time)
                           ELSE Rat(0, 1),
         elevation_difference |-> ElevationDiff(split_start, split_end),
         average_heartrate |-> SplitAvgHr(gps_track, split_start_index, i),
         pace_zone |-> 0]

\* fault variant: a split closes only once the boundary is passed
CrossesStrictly(distance, current_split, size) ==
    100 * distance.n > current_split * size

\* distance >= current_split * split_distance_meters
Crosses(distance, current_split, size) ==
    100 * distance.n >= current_split * size

\* the loop over enumerate(gps_track) from point i on; st holds splits,
\* current_split, split_start_index and whether an exception was raised
RECURSIVE SplitWalk(_, _, _, _)
SplitWalk(gps_track, size, i, st) ==
    IF i >= Len(gps_track) \/ st.raised THEN st
    ELSE
      LET point == gps_track[i + 1]
          distance == PointDistance(point)
      IN  IF ~IsNum(distance) THEN [st EXCEPT !.raised = TRUE]
          ELSE IF /\ Crosses(distance, st.current_split, size)
                  /\ i > 0
                  /\ st.split_start_index < Len(gps_track)
          THEN IF ElevationDiffRaises(gps_track[st.split_start_index + 1], point)
               THEN [st EXCEPT !.raised = TRUE]
               ELSE SplitWalk(gps_track, size, i + 1,
                      [splits |-> Append(st.splits,
                                    MakeSplit(gps_track, size, i, st.current_split,
                                              st.split_start_index)),
                       current_split |-> st.current_split + 1,
                       split_start_index |-> i,
                       raised |-> FALSE])
          ELSE SplitWalk(gps_track, size, i + 1, st)

SplitWalkAll(gps_track, size) ==
    SplitWalk(gps_track, size, 0,
              [splits |-> <<>>, current_split |-> 1, split_start_index |-> 0,
               raised |-> FALSE])

\* _calculate_splits_from_gps(gps_track, split_distance_meters)
CalculateSplitsFromGps(gps_track, size) == SplitWalkAll(gps_track, size).splits

\* _calculate_splits_from_gps raises
SplitsRaise(gps_track, size) == SplitWalkAll(gps_track, size).raised

(***************************************************************************)
(* _generate_strava_format as a whole                                      *)
(***************************************************************************)
\* fault variant: the splits are computed whenever there is a track
SplitsWantedAnyDistance(raw) == GpsTrack(raw) # <<>>

\* the splits are computed: gps_track is non-empty and distance > 0
SplitsWanted(raw) ==
    /\ GpsTrack(raw) # <<>>
    /\ IsNum(SessionMetric(raw, "total_distance", Num(0)))
    /\ SessionMetric(raw, "total_distance", Num(0)).n > 0

\* some step of _generate_strava_format raises
ProjectionRaises(raw) ==
    \/ ElevationsRaise(Elevations(raw))
    \/ /\ GpsTrack(raw) # <<>>
       /\ ~IsNum(SessionMetric(raw, "total_distance", Num(0)))
    \/ /\ SplitsWanted(raw)
       /\ (SplitsRaise(GpsTrack(raw), MileSplit) \/ SplitsRaise(GpsTrack(raw), KmSplit))
    \/ /\ ~IsNone(StartDate(raw))
       /\ ~IsIsoParsable(replaceZ(StartDate(raw)))

\* f"fit_{datetime.now().timestamp()}"
SyntheticId(now) == [k |-> "str", s |-> "fit_", t |-> now]

\* fault variant: the placeholder name carries the time of the parse
ActivityDefaultsStampedName(now) ==
    [name |-> [k |-> "str", s |-> "Manual FIT Upload", t |-> now],
     type |-> "Run", start_date |-> None, start_date_local |-> None,
     distance |-> Num(0), moving_time |-> Num(0), elapsed_time |-> Num(0),
     total_elevation_gain |-> Num(0), elev_high |-> None, elev_low |-> None,
     average_speed |-> Num(0), max_speed |-> Num(0),
     average_heartrate |-> None, max_heartrate |-> None,
     average_cadence |-> None, average_watts |-> None, max_watts |-> None,
     weighted_average_watts |-> None, average_temp |-> None,
     has_heartrate |-> FALSE, has_power |-> FALSE, calories |-> Num(0),
     splits_standard |-> <<>>, splits_metric |-> <<>>, laps |-> <<>>,
     segments |-> <<>>, gps_track |-> <<>>, id |-> SyntheticId(now),
     manual |-> TRUE, device_name |-> None, device_manufacturer |-> None,
     zones |-> [heart_rate |-> <<>>, power |-> <<>>]]

\* the activity_data dict literal; now is the clock reading taken for the id
ActivityDefaults(now) ==
    [name |-> Str("Manual FIT Upload"),
     type |-> "Run", start_date |-> None, start_date_local |-> None,
     distance |-> Num(0), moving_time |-> Num(0), elapsed_time |-> Num(0),
     total_elevation_gain |-> Num(0), elev_high |-> None, elev_low |-> None,
     average_speed |-> Num(0), max_speed |-> Num(0),
     average_heartrate |-> None, max_heartrate |-> None,
     average_cadence |-> None, average_watts |-> None, max_watts |-> None,
     weighted_average_watts |-> None, average_temp |-> None,
     has_heartrate |-> FALSE, has_power |-> FALSE, calories |-> Num(0),
     splits_standard |-> <<>>, splits_metric |-> <<>>, laps |-> <<>>,
     segments |-> <<>>, gps_track |-> <<>>, id |-> SyntheticId(now),
     manual |-> TRUE, device_name |-> None, device_manufacturer |-> None,
     zones |-> [heart_rate |-> <<>>, power |-> <<>>]]

\* the activity_data returned when no step raises: the literal with every
\* key the later statements assign overwritten
GenerateStravaFormat(raw, now) ==
    LET d == ActivityDefaults(now)
        start == StartSource(raw)
        type == IF "sport" \in DOMAIN FirstSession(raw)
                   /\ IsStr(FirstSession(raw)["sport"].value)
                THEN ActivityType(raw) ELSE d.type
        start_date == IF IsNone(start) THEN d.start_date ELSE StartDate(raw)
    IN
    [name |-> IF Truthy(start_date)
              THEN [k |-> "str", s |-> type \o " - ",
                    t |-> fromisoformat(replaceZ(start_date))]
              ELSE d.name,
     type |-> type,
     start_date |-> start_date,
     start_date_local |-> IF IsNone(start) THEN d.start_date_local
                          ELSE StartDateLocal(raw),
     distance |-> SessionMetric(raw, "total_distance", d.distance),
     moving_time |-> SessionMetric(raw, "total_timer_time", d.moving_time),
     elapsed_time |-> SessionMetric(raw, "total_elapsed_time", d.elapsed_time),
     total_elevation_gain |-> SessionMetric(raw, "total_ascent", d.total_elevation_gain),
     elev_high |-> IF Elevations(raw) # <<>> THEN ElevHigh(Elevations(raw))
                   ELSE d.elev_high,
     elev_low |-> IF Elevations(raw) # <<>> THEN ElevLow(Elevations(raw))
                  ELSE d.elev_low,
     average_speed |-> SessionMetric(raw, "avg_speed", d.average_speed),
     max_speed |-> SessionMetric(raw, "max_speed", d.max_speed),
     average_heartrate |-> SessionMetric(raw, "avg_heart_rate", d.average_heartrate),
     max_heartrate |-> SessionMetric(raw, "max_heart_rate", d.max_heartrate),
     average_cadence |-> SessionMetric(raw, "avg_cadence", d.average_cadence),
     average_watts |-> SessionMetric(raw, "avg_power", d.average_watts),
     max_watts |-> SessionMetric(raw, "max_power", d.max_watts),
     weighted_average_watts |->
         SessionMetric(raw, "normalized_power", d.weighted_average_watts),
     average_temp |-> SessionMetric(raw, "avg_temperature", d.average_temp),
     has_heartrate |-> IF SessionFlag(raw, {"avg_heart_rate", "max_heart_rate"})
                       THEN TRUE ELSE d.has_heartrate,
     has_power |-> IF SessionFlag(raw, {"avg_power", "max_power"})
                   THEN TRUE ELSE d.has_power,
     calories |-> SessionMetric(raw, "total_calories", d.calories),
     splits_standard |-> IF SplitsWanted(raw)
                         THEN CalculateSplitsFromGps(GpsTrack(raw), MileSplit)
                         ELSE d.splits_standard,
     splits_metric |-> IF SplitsWanted(raw)
                       THEN CalculateSplitsFromGps(GpsTrack(raw), KmSplit)
                       ELSE d.splits_metric,
     laps |-> d.laps \o Laps(raw),
     segments |-> d.segments \o Segments(raw),
     gps_track |-> d.gps_track \o GpsTrack(raw),
     id |-> d.id,
     manual |-> d.manual,
     device_name |-> IF raw.buckets["device_info"] # <<>>
                        /\ "product" \in DOMAIN raw.buckets["device_info"][1]
                     THEN DeviceField(raw, "product") ELSE d.device_name,
     device_manufacturer |->
         IF raw.buckets["device_info"] # <<>>
            /\ "manufacturer" \in DOMAIN raw.buckets["device_info"][1]
         THEN DeviceField(raw, "manufacturer") ELSE d.device_manufacturer,
     zones |-> [heart_rate |-> d.zones.heart_rate \o HrZones(raw),
                power |-> d.zones.power \o PowerZones(raw)],
     description |-> Str("Uploaded from FIT file")]

(***************************************************************************)
(* The files: what the decoder (fitparse.FitFile) delivers                 *)
(***************************************************************************)
\* longest message sequence of a file
MaxMsgs == 3

NoUnits == None

\* message templates, as decoded (datetimes not yet converted)
FileIdMsg(t) ==
    Msg("file_id", ("time_created" :> Fld(Datetime(t), NoUnits, Num(t)))
                   @@ ("type" :> Fld(Str("activity"), NoUnits, Num(4))))

SessionMsg ==
    Msg("session", ("sport" :> Fld(Str("running"), NoUnits, Num(1)))
                   @@ ("total_distance" :> Fld(Num(5000), Str("m"), Num(500000)))
                   @@ ("total_timer_time" :> Fld(Num(1800), Str("s"), Num(1800000)))
                   @@ ("avg_heart_rate" :> Fld(Num(150), Str("bpm"), Num(150))))

RecordMsg(t, d) ==
    Msg("record", ("timestamp" :> Fld(Datetime(t), Str("s"), Num(t)))
                  @@ ("distance" :> Fld(Num(d), Str("m"), Num(100 * d))))

\* a record whose altitude the device marked invalid (value None)
RecordNoFixMsg(t, d) ==
    Msg("record", ("timestamp" :> Fld(Datetime(t), Str("s"), Num(t)))
                  @@ ("distance" :> Fld(Num(d), Str("m"), Num(100 * d)))
                  @@ ("altitude" :> Fld(None, Str("m"), Num(65535)))
                  @@ ("heart_rate" :> Fld(Num(140), Str("bpm"), Num(140))))

\* message types outside the named buckets
UnknownMsg(name) ==
    Msg(name, ("unknown_2" :> Fld(Tuple("(1, 2)"), NoUnits, Tuple("(1, 2)")))
              @@ ("local_time" :> Fld(Opaque("08:00:00"), NoUnits, Num(28800))))

Pool ==
    {FileIdMsg(10), SessionMsg, RecordMsg(100, 0), RecordNoFixMsg(700, 2000),
     UnknownMsg("unknown_140"), UnknownMsg("gps_metadata")}

RECURSIVE SeqsUpTo(_, _)
SeqsUpTo(S, n) ==
    IF n = 0 THEN {<<>>}
    ELSE LET shorter == SeqsUpTo(S, n - 1)
         IN  shorter \cup {Append(q, x) : q \in {r \in shorter : Len(r) = n - 1}, x \in S}

\* a file on disk as the decoder sees it: it yields the first truncAt
\* messages of msgs and then raises (truncAt = 0: FitFile() itself raises on
\* the header); a file with truncAt > Len(msgs) decodes to the end
Files ==
    {f \in [msgs : SeqsUpTo(Pool, MaxMsgs), truncAt : 0..(MaxMsgs + 1)] :
        f.truncAt <= Len(f.msgs) + 1}

IsIntact(f) == f.truncAt > Len(f.msgs)

\* FitFile(filepath) raises: no such file, or a header it cannot read
OpenRaises(d, f) == ~d.exists \/ f.truncAt = 0

\* q with x inserted so that it becomes element number p + 1
InsertAt(q, p, x) == SubSeq(q, 1, p) \o <<x>> \o SubSeq(q, p + 1, Len(q))

\* latest creation time of a five-kilometre run file
MaxStart == 2

\* a 5 km run: a file_id created at T, five records 360 s and 1000 m apart
\* from T on, and the session summary written anywhere after the file_id
RunRecords(T) == [i \in 1..5 |-> RecordMsg(T + 360 * (i - 1), 1000 * (i - 1))]

RunFiles ==
    {[msgs |-> <<FileIdMsg(T)>> \o InsertAt(RunRecords(T), p, SessionMsg),
      truncAt |-> 8] : T \in 0..MaxStart, p \in 0..5}

\* longest record sequence of a track file
MaxTrack == 3

\* a record with a timestamp, a distance and the enhanced altitude
TrackMsg(t, d, alt) ==
    Msg("record", ("timestamp" :> Fld(Datetime(t), Str("s"), Num(t)))
                  @@ ("distance" :> Fld(Num(d), Str("m"), Num(100 * d)))
                  @@ ("enhanced_altitude" :> Fld(Num(alt), Str("m"), Num(5 * (alt + 500)))))

\* a record without a timestamp, its heart rate marked invalid
UntimedMsg(d) ==
    Msg("record", ("distance" :> Fld(Num(d), Str("m"), Num(100 * d)))
                  @@ ("heart_rate" :> Fld(None, Str("bpm"), None)))

\* a record of a heart-rate strap alone: no distance field
HeartRateMsg(t, h) ==
    Msg("record", ("timestamp" :> Fld(Datetime(t), Str("s"), Num(t)))
                  @@ ("heart_rate" :> Fld(Num(h), Str("bpm"), Num(h))))

\* a record whose distance the device marked invalid (value None)
NoDistanceMsg(t) ==
    Msg("record", ("timestamp" :> Fld(Datetime(t), Str("s"), Num(t)))
                  @@ ("distance" :> Fld(None, Str("m"), None)))

\* a session summary of an activity that covered no distance
SessionZeroMsg ==
    Msg("session", ("sport" :> Fld(Str("running"), NoUnits, Num(1)))
                   @@ ("total_distance" :> Fld(Num(0), Str("m"), Num(0)))
                   @@ ("total_timer_time" :> Fld(Num(600), Str("s"), Num(600000))))

TrackPool ==
    {TrackMsg(100, 0, 10), TrackMsg(700, 2000, 50), RecordMsg(100, 4000),
     UntimedMsg(2000), HeartRateMsg(100, 140), RecordNoFixMsg(700, 2000),
     NoDistanceMsg(100)}

\* intact files of at most one session summary and a track of records
TrackFiles ==
    {[msgs |-> s \o r, truncAt |-> Len(s \o r) + 1] :
        s \in {<<>>, <<SessionMsg>>, <<SessionZeroMsg>>},
        r \in SeqsUpTo(TrackPool, MaxTrack)}

\* a record of a position alone; the decoder delivers a sint32 number of
\* semicircles, or None for the invalid value 0x7FFFFFFF
PositionMsg(lat, lng) ==
    Msg("record", ("position_lat" :> Fld(lat, Str("semicircles"), lat))
                  @@ ("position_long" :> Fld(lng, Str("semicircles"), lng)))

\* the semicircle values tried: 2^30 is a quarter turn, -(2^31) the least
\* sint32 and 2^31 - 2 the greatest valid one
LatSemicircles == {-(2^30) - 1, -(2^30), 0, 2^30, 2^30 + 1}
LngSemicircles == {-(2^30) - 2^30, 0, (2^30 - 2) + 2^30}

PositionPool ==
    {PositionMsg(Num(a), Num(b)) : a \in LatSemicircles, b \in LngSemicircles}
        \cup {PositionMsg(None, None)}

\* intact files of one position record, alone or after a timed record
PositionFiles ==
    {[msgs |-> s \o <<m>>, truncAt |-> Len(s) + 2] :
        s \in {<<>>, <<TrackMsg(100, 0, 10)>>}, m \in PositionPool}

\* the field is not in the message
Absent == [k |-> "absent"]

\* the entry of a message's fields for one field, none when it is absent
OptField(name, v, units) ==
    IF v = Absent THEN EmptyDict ELSE name :> Fld(v, units, v)

\* a session summary of the given sport, heart rates and powers
SessionOf(sport, hr, maxhr, pw, maxpw) ==
    Msg("session", OptField("sport", sport, NoUnits)
                   @@ OptField("avg_heart_rate", hr, Str("bpm"))
                   @@ OptField("max_heart_rate", maxhr, Str("bpm"))
                   @@ OptField("avg_power", pw, Str("watts"))
                   @@ OptField("max_power", maxpw, Str("watts")))

\* the sport values tried: names of the FIT profile in several spellings, an
\* enum number the profile does not name, and the invalid value
SportNames ==
    {"running", "Running", "RUNNING", "cycling", "Cycling", "CYCLING",
     "walking", "Walking", "hiking", "Hiking", "swimming", "Swimming",
     "generic", "Generic", "rowing", "Rowing"}
Sports == {Str(n) : n \in SportNames} \cup {Num(17), None, Absent}

SessionPool ==
    {SessionOf(sp, Absent, Absent, Absent, Absent) : sp \in Sports}
    \cup {SessionOf(Str("cycling"), hr, maxhr, pw, maxpw) :
              hr \in {Absent, None, Num(0), Num(150)},
              maxhr \in {Absent, Num(0), Num(180)},
              pw \in {Absent, Num(0), Num(200)},
              maxpw \in {Absent, None, Num(300)}}

\* intact files of no session, one session, or a session followed by the
\* summary of a run
SessionFiles ==
    {[msgs |-> q, truncAt |-> Len(q) + 1] :
        q \in {<<>>} \cup {<<m>> : m \in SessionPool}
                 \cup {<<m, SessionMsg>> : m \in SessionPool}}

\* most session messages of a file of start times
MaxSessions == 2

\* a session summary with a start time, a sport and a distance
TimedSession(start_time, sport, dist) ==
    Msg("session", OptField("start_time", start_time, NoUnits)
                   @@ OptField("sport", sport, NoUnits)
                   @@ OptField("total_distance", dist, Str("m")))

\* a file_id with a creation time
CreatedMsg(time_created) ==
    Msg("file_id", OptField("time_created", time_created, NoUnits)
                   @@ ("type" :> Fld(Str("activity"), NoUnits, Num(4))))

\* start times as the decoder delivers them: a datetime, a number of
\* seconds since power-up (date_time values below 0x10000000 stay numbers),
\* the invalid value, or no field
StartSessions ==
    {TimedSession(st, sd[1], sd[2]) :
        st \in {Absent, None, Num(5), Datetime(20)},
        sd \in {<<Absent, Absent>>, <<Str("cycling"), Num(8000)>>}}
    \cup {TimedSession(Datetime(30), Str("walking"), Num(3000)), SessionMsg}

CreatedPool == {CreatedMsg(tc) : tc \in {Absent, None, Datetime(10), Datetime(15)}}

\* intact files of up to two file_id messages before or after the session
\* messages
StartFiles ==
    LET ids == {<<>>} \cup {<<f>> : f \in CreatedPool}
                  \cup {<<f, CreatedMsg(Datetime(15))>> : f \in CreatedPool}
        sessions == SeqsUpTo(StartSessions, MaxSessions)
    IN  {[msgs |-> q, truncAt |-> Len(q) + 1] :
            q \in {i \o r : i \in ids, r \in sessions}
                     \cup {r \o i : i \in ids, r \in sessions}}

\* most records of a file of altitudes and speeds
MaxPoints == 2

\* a record with standard and enhanced altitude and speed
PrecisionMsg(alt, ealt, spd, espd) ==
    Msg("record", ("timestamp" :> Fld(Datetime(100), Str("s"), Num(100)))
                  @@ OptField("altitude", alt, Str("m"))
                  @@ OptField("enhanced_altitude", ealt, Str("m"))
                  @@ OptField("speed", spd, Str("m/s"))
                  @@ OptField("enhanced_speed", espd, Str("m/s")))

\* every combination of the four fields being there or not, the enhanced
\* altitude also as the invalid value
PrecisionPool ==
    {PrecisionMsg(alt, ealt, spd, espd) :
        alt \in {Absent, Num(10)}, ealt \in {Absent, None, Num(12)},
        spd \in {Absent, Num(3)}, espd \in {Absent, Num(4)}}

PrecisionFiles ==
    {[msgs |-> r, truncAt |-> Len(r) + 1] : r \in SeqsUpTo(PrecisionPool, MaxPoints)}

\* most messages of a file of laps, segments and zones
MaxLaps == 3

LapMsg(t, d) ==
    Msg("lap", ("timestamp" :> Fld(Datetime(t), Str("s"), Num(t)))
               @@ ("total_distance" :> Fld(Num(d), Str("m"), Num(100 * d))))

SegmentMsg(t, d) ==
    Msg("segment", ("timestamp" :> Fld(Datetime(t), Str("s"), Num(t)))
                   @@ ("total_distance" :> Fld(Num(d), Str("m"), Num(100 * d))))

HrZoneMsg(lo, hi) ==
    Msg("hr_zone", ("low_bpm" :> Fld(Num(lo), Str("bpm"), Num(lo)))
                   @@ ("high_bpm" :> Fld(Num(hi), Str("bpm"), Num(hi))))

PowerZoneMsg(lo, hi) ==
    Msg("power_zone", ("low_value" :> Fld(Num(lo), Str("watts"), Num(lo)))
                      @@ ("high_value" :> Fld(Num(hi), Str("watts"), Num(hi))))

\* two distinguishable messages of each of the four kinds
LapPool ==
    {LapMsg(400, 1000), LapMsg(900, 2000), SegmentMsg(200, 300),
     SegmentMsg(500, 400), HrZoneMsg(100, 120), HrZoneMsg(120, 140),
     PowerZoneMsg(0, 150), PowerZoneMsg(150, 250)}

LapFiles ==
    {[msgs |-> r, truncAt |-> Len(r) + 1] : r \in SeqsUpTo(LapPool, MaxLaps)}

\* longest sample sequence of a split file
MaxSamples == 3

\* a record with a timestamp, a distance and a heart rate
SplitMsg(t, d, hr) ==
    Msg("record", ("timestamp" :> Fld(Datetime(t), Str("s"), Num(t)))
                  @@ ("distance" :> Fld(Num(d), Str("m"), Num(100 * d)))
                  @@ ("heart_rate" :> Fld(hr, Str("bpm"), hr)))

\* samples at the start, on a kilometre mark, between two marks and on a
\* later mark, the last with an invalid heart rate
SplitPool ==
    {SplitMsg(0, 0, Num(100)), SplitMsg(300, 1000, Num(140)),
     SplitMsg(700, 2500, Num(180)), SplitMsg(900, 3000, None)}

\* intact files of the summary of a run and a sequence of samples
SplitFiles ==
    {[msgs |-> <<SessionMsg>> \o r, truncAt |-> Len(r) + 2] :
        r \in SeqsUpTo(SplitPool, MaxSamples)}

\* short intact files of file_id and session messages
RepeatFiles ==
    {f \in Files :
        /\ IsIntact(f)
        /\ \A i \in 1..Len(f.msgs) :
              f.msgs[i] \in {FileIdMsg(10), SessionMsg}}

(***************************************************************************)
(* State                                                                   *)
(***************************************************************************)
VARIABLES
    file,          \* the file at filepath
    clock,         \* what datetime.now() returns, in clock ticks
    pc,            \* where the running parse_fit_file call is
    arg,           \* the comprehensive argument of the call: "omitted", "True", "False"
    cdata,         \* comprehensive_data as built so far by the running call
    pos,           \* messages the running call has taken from get_messages()
    returned,      \* what the completed parse_fit_file calls returned, in order
    disk,          \* what the file system says of filepath: exists, name, size
    vpc,           \* where the validate_fit_file call is
    vtrace,        \* the checks validate_fit_file has run, in order
    vresult,       \* what validate_fit_file returned: (is_valid, reason)
    escaped,       \* an exception left a public entry point
    exported,      \* the export_comprehensive_data calls made: path state, result
    rate_limit,    \* NUM_ANALYSIS_<provider> of the provider requested
    sheet,         \* the AI Analysis sheet: has a header row, rows of this IP today
    lock,          \* the request holding rate_limit_lock, 0 when it is free
    rpc,           \* where each api_analyze_activity request is
    epoch,         \* what time.time() returns
    tokens,        \* the content of TOKEN_FILE, None when there is no file
    creds,         \* the athlete's row of the credentials sheet, None when missing
    minted,        \* the access tokens Strava has issued on refresh so far
    tcall,         \* the latest get_valid_token / get_athlete_token call
    upc,           \* where the upload_fit_file request is
    response       \* what upload_fit_file returned

parseVars == <<file, clock, pc, arg, cdata, pos, returned>>
validateVars == <<disk, vpc, vtrace, vresult>>
gateVars == <<rate_limit, sheet, lock, rpc>>
tokenVars == <<epoch, tokens, creds, minted, tcall>>
uploadVars == <<upc, response>>
appVars == <<gateVars, tokenVars, uploadVars>>

NoData == [raw_data |-> InitRawData, strava_format |-> None,
           metadata |-> [parsed_at |-> None, message_counts |-> EmptyDict]]

\* comprehensive_data as first built by parse_fit_file_comprehensive
FreshData(now) ==
    [raw_data |-> InitRawData,
     strava_format |-> None,
     metadata |-> [parsed_at |-> isoformat(Datetime(now)),
                   message_counts |-> EmptyDict]]

\* the default of parse_fit_file's comprehensive parameter
DefaultComprehensive == TRUE

EffectiveComprehensive(a) ==
    IF a = "omitted" THEN DefaultComprehensive ELSE a = "True"

\* what parse_fit_file returns from a comprehensive_data that is not None
ModeResult(comprehensive, data) ==
    IF comprehensive THEN data ELSE data.strava_format

Return(a, value) == [arg |-> a, value |-> value]

\* the two shapes of a non-None return value
IsWrapper(v) == "raw_data" \in DOMAIN v
IsActivity(v) == "distance" \in DOMAIN v
\* the normalized activity inside a non-None return value
ActivityOf(v) == IF IsWrapper(v) THEN v.strava_format ELSE v

(***************************************************************************)
(* parse_fit_file / parse_fit_file_comprehensive, one step per action      *)
(***************************************************************************)
\* most parse_fit_file calls in one behaviour, and the last clock reading
MaxParses == 2
MaxClock == 1

\* the clock advances between any two steps
Tick ==
    /\ clock < MaxClock
    /\ clock' = clock + 1
    /\ UNCHANGED <<file, pc, arg, cdata, pos, returned, validateVars, escaped,
                   exported, appVars>>

\* the statements of parse_fit_file_comprehensive inside its try block;
\* parse_fit_file wraps the whole call in a second try
ParseTryCovers(where) == where \in {"open", "iterate", "project"}

\* fault variant: the handler hands back what was built so far
ErrorResultPartial(data) == data

\* what the except clause returns for the comprehensive_data built so far
ErrorResult(data) == None

\* an exception is raised at where while the call with argument a holds data
ParseRaise(a, where, data) ==
    IF ParseTryCovers(where)
    THEN /\ returned' = Append(returned, Return(a, ErrorResult(data)))
         /\ UNCHANGED escaped
    ELSE /\ escaped' = TRUE
         /\ UNCHANGED returned

\* parse_fit_file(filepath[, comprehensive]) is called and FitFile(filepath)
\* runs: on an error the except clause returns None, else comprehensive_data
\* is built
ParseOpen(limit) ==
    /\ pc = "idle"
    /\ Len(returned) < limit
    /\ vpc \in {"idle", "done"}
    /\ ~escaped
    /\ \E a \in {"omitted", "True", "False"} :
        IF OpenRaises(disk, file)
        THEN /\ ParseRaise(a, "open", NoData)
             /\ UNCHANGED <<pc, arg, cdata, pos>>
        ELSE /\ arg' = a
             /\ cdata' = FreshData(clock)
             /\ pos' = 0
             /\ pc' = "reading"
             /\ UNCHANGED <<returned, escaped>>
    /\ UNCHANGED <<file, clock, validateVars, exported, appVars>>

\* one iteration of "for record in fitfile.get_messages()"
ReadMessage ==
    /\ pc = "reading"
    /\ pos < Len(file.msgs)
    /\ pos < file.truncAt
    /\ LET m == file.msgs[pos + 1] IN
        cdata' = [cdata EXCEPT
                    !.metadata.message_counts = CountMessage(@, m.name),
                    !.raw_data = StoreMessage(@, m.name, RecordDict(m))]
    /\ pos' = pos + 1
    /\ UNCHANGED <<file, clock, pc, arg, returned, validateVars, escaped,
                   exported, appVars>>

\* get_messages() raises on the damaged part of the file
DecodeError ==
    /\ pc = "reading"
    /\ pos = file.truncAt
    /\ ParseRaise(arg, "iterate", cdata)
    /\ pc' = "idle"
    /\ cdata' = NoData
    /\ pos' = 0
    /\ UNCHANGED <<file, clock, arg, validateVars, exported, appVars>>

\* the loop is over: _generate_strava_format runs and parse_fit_file returns
\* according to its comprehensive argument
Project ==
    /\ pc = "reading"
    /\ pos = Len(file.msgs)
    /\ IsIntact(file)
    /\ IF ProjectionRaises(cdata.raw_data)
       THEN ParseRaise(arg, "project", cdata)
       ELSE /\ returned' = Append(returned, Return(arg,
                  ModeResult(EffectiveComprehensive(arg),
                     [cdata EXCEPT !.strava_format =
                         GenerateStravaFormat(cdata.raw_data, clock)])))
            /\ UNCHANGED escaped
    /\ pc' = "idle"
    /\ cdata' = NoData
    /\ pos' = 0
    /\ UNCHANGED <<file, clock, arg, validateVars, exported, appVars>>

(***************************************************************************)
(* export_comprehensive_data                                               *)
(***************************************************************************)
\* json's encoder accepts the value: None, a number, a str, a bool, or a
\* list or tuple of those; anything else makes json.dump raise TypeError
JsonEncodes(v) == v.k \in {"none", "num", "str", "bool", "tuple"}

\* the value, units and raw_value of every field of every stored message
ListLeaves(records) ==
    UNION {UNION {{records[i][f].value, records[i][f].units,
                   records[i][f].raw_value} : f \in DOMAIN records[i]}
              : i \in 1..Len(records)}

RawLeaves(raw) ==
    UNION {ListLeaves(raw.buckets[b]) : b \in KnownBuckets}
    \cup UNION {ListLeaves(raw.other_messages[n]) : n \in DOMAIN raw.other_messages}

\* the keys of activity_data whose value is taken from a message field or
\* is a str the projection builds
ActivityValueKeys ==
    {"name", "start_date", "start_date_local", "distance", "moving_time",
     "elapsed_time", "total_elevation_gain", "elev_high", "elev_low",
     "average_speed", "max_speed", "average_heartrate", "max_heartrate",
     "average_cadence", "average_watts", "max_watts",
     "weighted_average_watts", "average_temp", "calories", "id",
     "device_name", "device_manufacturer", "description"}

\* every value in a list of dicts, but for the int under 'id'
DictListLeaves(dicts) ==
    UNION {{dicts[i][f] : f \in DOMAIN dicts[i] \ {"id"}} : i \in 1..Len(dicts)}

\* the values of the activity that come from message fields; the rest are
\* ints, floats, bools and strs the projection computes
ActivityLeaves(a) ==
    {a[f] : f \in ActivityValueKeys}
    \cup DictListLeaves(a.gps_track)
    \cup DictListLeaves(a.laps)
    \cup DictListLeaves(a.segments)
    \cup DictListLeaves(a.zones.heart_rate)
    \cup DictListLeaves(a.zones.power)

\* every value json.dump meets in what parse_fit_file returned
Leaves(data) ==
    IF IsNone(data) THEN {}
    ELSE IF IsWrapper(data)
    THEN RawLeaves(data.raw_data) \cup {data.metadata.parsed_at}
            \cup (IF IsNone(data.strava_format) THEN {}
                  ELSE ActivityLeaves(data.strava_format))
    ELSE ActivityLeaves(data)

\* json.dump(comprehensive_data, f, indent=2) raises
JsonDumpRaises(data) == \E v \in Leaves(data) : ~JsonEncodes(v)

\* export_comprehensive_data(comprehensive_data, output_filepath): True
\* unless open() or json.dump() raises; writable: open(output_filepath, 'w')
\* succeeds
ExportComprehensiveData(data, writable) == writable /\ ~JsonDumpRaises(data)

\* export_comprehensive_data is called on the latest result not yet exported
Export ==
    /\ pc = "idle"
    /\ Len(exported) < Len(returned)
    /\ \E writable \in BOOLEAN :
          exported' = Append(exported,
              [writable |-> writable,
               result |-> ExportComprehensiveData(
                              returned[Len(exported) + 1].value, writable)])
    /\ UNCHANGED <<parseVars, validateVars, escaped, appVars>>

(***************************************************************************)
(* validate_fit_file                                                       *)
(***************************************************************************)
\* the 50 MB limit: 50 * 1024 * 1024 bytes
MaxFileSize == 52428800

\* str.lower(), character by character
LowerChar(c) ==
    CASE c = "F" -> "f" [] c = "I" -> "i" [] c = "T" -> "t" [] c = "A" -> "a"
      [] OTHER -> c
Lower(name) == [i \in 1..Len(name) |-> LowerChar(name[i])]

\* name.endswith(suffix)
EndsWith(name, suffix) ==
    /\ Len(name) >= Len(suffix)
    /\ SubSeq(name, Len(name) - Len(suffix) + 1, Len(name)) = suffix

DotFit == <<".", "f", "i", "t">>

\* fault variant: the two size checks run before the extension check
StepAfterSizeFirst(step) ==
    CASE step = "exists" -> "size"
      [] step = "size" -> "empty"
      [] step = "empty" -> "extension"
      [] step = "extension" -> "open"
      [] step = "open" -> "iterate"
      [] OTHER -> "done"

\* the checks of validate_fit_file, in the order of its code
StepAfter(step) ==
    CASE step = "exists" -> "extension"
      [] step = "extension" -> "size"
      [] step = "size" -> "empty"
      [] step = "empty" -> "open"
      [] step = "open" -> "iterate"
      [] OTHER -> "done"

Verdict(is_valid, reason) == [is_valid |-> is_valid, reason |-> reason]
NoVerdict == [is_valid |-> FALSE, reason |-> Str("(not returned)")]

\* fault variant: FitFile(filepath) is called before the try block
ValidateTryCoversIterationOnly(where) == where = "iterate"

\* the statements of validate_fit_file inside its try block
ValidateTryCovers(where) == where \in {"open", "iterate"}

\* f"Invalid FIT file format: {str(e)}"
InvalidFormat == Str("Invalid FIT file format: <error>")

\* validate_fit_file returns v
ValidateReturn(v) ==
    /\ vresult' = v
    /\ vpc' = "done"
    /\ UNCHANGED escaped

\* the check passed: on to the next one
ValidatePass(step) ==
    /\ vpc' = StepAfter(step)
    /\ UNCHANGED <<vresult, escaped>>

\* the decoder raised at where
ValidateRaise(where) ==
    IF ValidateTryCovers(where)
    THEN ValidateReturn(Verdict(FALSE, InvalidFormat))
    ELSE /\ escaped' = TRUE
         /\ vpc' = "done"
         /\ UNCHANGED vresult

ValidateCall ==
    /\ vpc = "idle"
    /\ pc = "idle"
    /\ vpc' = "exists"
    /\ UNCHANGED <<vtrace, vresult, disk, parseVars, escaped, exported, appVars>>

ValidateStep(step) ==
    /\ vpc = step
    /\ vtrace' = Append(vtrace, step)
    /\ UNCHANGED <<disk, parseVars, exported, appVars>>

\* if not os.path.exists(filepath)
CheckExists ==
    /\ ValidateStep("exists")
    /\ IF ~disk.exists
       THEN ValidateReturn(Verdict(FALSE, Str("File does not exist")))
       ELSE ValidatePass("exists")

\* if not filepath.lower().endswith('.fit')
CheckExtension ==
    /\ ValidateStep("extension")
    /\ IF ~EndsWith(Lower(disk.name), DotFit)
       THEN ValidateReturn(Verdict(FALSE, Str("File must have .fit extension")))
       ELSE ValidatePass("extension")

\* if file_size > 50 * 1024 * 1024
CheckSize ==
    /\ ValidateStep("size")
    /\ IF disk.size > MaxFileSize
       THEN ValidateReturn(Verdict(FALSE, Str("FIT file is too large (max 50 MB)")))
       ELSE ValidatePass("size")

\* fault variant: the zero-size test is missing
CheckEmptySkipped ==
    /\ ValidateStep("empty")
    /\ ValidatePass("empty")

\* if file_size == 0
CheckEmpty ==
    /\ ValidateStep("empty")
    /\ IF disk.size = 0
       THEN ValidateReturn(Verdict(FALSE, Str("FIT file is empty")))
       ELSE ValidatePass("empty")

\* fitfile = FitFile(filepath)
ValidateOpen ==
    /\ ValidateStep("open")
    /\ IF OpenRaises(disk, file)
       THEN ValidateRaise("open")
       ELSE ValidatePass("open")

\* messages = list(fitfile.get_messages()), then the test of the list
ValidateIterate ==
    /\ ValidateStep("iterate")
    /\ IF ~IsIntact(file) THEN ValidateRaise("iterate")
       ELSE IF file.msgs = <<>>
       THEN ValidateReturn(Verdict(FALSE, Str("FIT file contains no data")))
       ELSE ValidateReturn(Verdict(TRUE, None))

(***************************************************************************)
(* api_analyze_activity: the rate-limit gate                               *)
(***************************************************************************)
\* most concurrent requests of one client IP, provider and day
MaxRequests == 3
Requests == 1..MaxRequests

\* NUM_ANALYSIS_<provider>: -1 blocks, 0 is unlimited, else the daily limit
Limits == {-1, 0, 1, 2}

\* the rows of the sheet as values().get returns them: rows is the number of
\* rows of this IP, provider and day; without a header row the first of
\* them is the sheet's first row
EmptySheet(header) == [header |-> header, rows |-> 0]

\* check_analysis_limit(ip_address, provider): (allowed, count, limit)
CheckAnalysisLimit(sh, limit, readOk) ==
    IF limit = -1 THEN [allowed |-> FALSE, count |-> 0, limit |-> -1]
    ELSE IF limit = 0 THEN [allowed |-> TRUE, count |-> 0, limit |-> 0]
    ELSE IF ~readOk THEN [allowed |-> FALSE, count |-> 0, limit |-> limit]
    ELSE IF ~sh.header /\ sh.rows = 0
    THEN [allowed |-> TRUE, count |-> 0, limit |-> limit]
    ELSE LET count == IF sh.header THEN sh.rows ELSE sh.rows - 1
         IN  [allowed |-> count < limit, count |-> count, limit |-> limit]

\* log_analysis_request: the sheet after the call; the append may raise,
\* which the function catches
LogAnalysisRequest(sh, appendOk) ==
    IF appendOk THEN [sh EXCEPT !.rows = @ + 1] ELSE sh

\* the request reads its provider's limit: -1 answers 429, 0 goes on to the
\* analysis, a positive limit leads to the lock
GateEnter(r) ==
    /\ rpc[r] = "start"
    /\ rpc' = [rpc EXCEPT ![r] = IF rate_limit = -1 THEN "blocked"
                                 ELSE IF rate_limit > 0 THEN "waiting"
                                 ELSE "analysis"]
    /\ UNCHANGED <<rate_limit, sheet, lock>>
    /\ UNCHANGED <<parseVars, validateVars, escaped, exported, tokenVars, uploadVars>>

\* with rate_limit_lock:
GateAcquire(r) ==
    /\ rpc[r] = "waiting"
    /\ lock = 0
    /\ lock' = r
    /\ rpc' = [rpc EXCEPT ![r] = "locked"]
    /\ UNCHANGED <<rate_limit, sheet>>
    /\ UNCHANGED <<parseVars, validateVars, escaped, exported, tokenVars, uploadVars>>

\* check_analysis_limit inside the lock; "if not allowed: return" leaves the
\* with block and frees the lock
GateCheck(r) ==
    /\ rpc[r] = "locked"
    /\ \E readOk \in BOOLEAN :
          IF CheckAnalysisLimit(sheet, rate_limit, readOk).allowed
          THEN /\ rpc' = [rpc EXCEPT ![r] = "logging"]
               /\ UNCHANGED lock
          ELSE /\ rpc' = [rpc EXCEPT ![r] = "blocked"]
               /\ lock' = 0
    /\ UNCHANGED <<rate_limit, sheet>>
    /\ UNCHANGED <<parseVars, validateVars, escaped, exported, tokenVars, uploadVars>>

\* log_analysis_request inside the lock, its result unused; the with block
\* ends and the request goes on to the analysis
GateLog(r) ==
    /\ rpc[r] = "logging"
    /\ \E appendOk \in BOOLEAN : sheet' = LogAnalysisRequest(sheet, appendOk)
    /\ lock' = 0
    /\ rpc' = [rpc EXCEPT ![r] = "analysis"]
    /\ UNCHANGED rate_limit
    /\ UNCHANGED <<parseVars, validateVars, escaped, exported, tokenVars, uploadVars>>

(***************************************************************************)
(* get_valid_token / get_athlete_token                                     *)
(***************************************************************************)
\* the buffer, in seconds, before expiry inside which a token is refreshed
TokenMargin == 300
\* the last reading of time.time(), and the most refreshes of a behaviour
MaxEpoch == 2
MaxRefreshes == 2

\* an access or refresh token is a positive number; NoToken is the None the
\* functions return and the missing or empty field of a response
NoToken == 0

\* the dict save_tokens writes and load_tokens reads
TokenData(access_token, refresh_token, expires_at) ==
    [access_token |-> access_token, refresh_token |-> refresh_token,
     expires_at |-> expires_at]

\* expiry times around the buffer, and 0 for an empty Expires_at cell
Expiries == {0} \cup ((TokenMargin - 1)..(TokenMargin + MaxEpoch + 1))

\* what the POST to the token endpoint does: it raises, answers non-OK, or
\* answers OK with each of the three fields there or not
RefreshOutcomes(now, fresh) ==
    {[kind |-> "raise"], [kind |-> "not_ok"]}
    \cup {[kind |-> "ok", access_token |-> a, refresh_token |-> r, expires_at |-> e] :
            a \in {NoToken, fresh}, r \in {NoToken, fresh},
            e \in {0, now + TokenMargin + 2}}

NoRefresh == [kind |-> "none"]

\* if access_token and new_refresh_token and expires_at
YieldsTokens(o) ==
    /\ o.kind = "ok"
    /\ o.access_token # NoToken /\ o.refresh_token # NoToken /\ o.expires_at # 0

\* refresh_access_token(refresh_token) under outcome o: what it returns and
\* what TOKEN_FILE holds afterwards
RefreshAccessToken(stored, o) ==
    IF YieldsTokens(o)
    THEN [result |-> o.access_token,
          tokens |-> TokenData(o.access_token, o.refresh_token, o.expires_at)]
    ELSE [result |-> NoToken, tokens |-> stored]

TokenCall(fn, stored, o, result) ==
    [fn |-> fn, stored |-> stored, now |-> epoch, outcome |-> o, result |-> result]

\* the access token the next refresh issues
FreshToken == minted + 2

\* get_valid_token()
GetValidToken ==
    /\ minted < MaxRefreshes
    /\ IF IsNone(tokens)
       THEN /\ tcall' = TokenCall("get_valid_token", tokens, NoRefresh, NoToken)
            /\ UNCHANGED <<tokens, minted>>
       ELSE IF tokens.expires_at <= epoch + TokenMargin
       THEN \E o \in RefreshOutcomes(epoch, FreshToken) :
              LET r == RefreshAccessToken(tokens, o) IN
              /\ tokens' = r.tokens
              /\ minted' = minted + 1
              /\ tcall' = TokenCall("get_valid_token", tokens, o, r.result)
       ELSE /\ tcall' = TokenCall("get_valid_token", tokens, NoRefresh,
                                  tokens.access_token)
            /\ UNCHANGED <<tokens, minted>>
    /\ UNCHANGED <<epoch, creds>>
    /\ UNCHANGED <<parseVars, validateVars, escaped, exported, gateVars, uploadVars>>

\* get_athlete_token(athlete_name): None after an exception, the new token
\* after a complete answer (update_athlete_tokens may fail to write it),
\* and creds['access_token'] in every other case
GetAthleteToken ==
    /\ minted < MaxRefreshes
    /\ IF IsNone(creds)
       THEN /\ tcall' = TokenCall("get_athlete_token", creds, NoRefresh, NoToken)
            /\ UNCHANGED <<creds, minted>>
       ELSE IF creds.expires_at <= epoch + TokenMargin
       THEN \E o \in RefreshOutcomes(epoch, FreshToken), updateOk \in BOOLEAN :
              /\ minted' = minted + 1
              /\ creds' = IF YieldsTokens(o) /\ updateOk
                          THEN TokenData(o.access_token, o.refresh_token, o.expires_at)
                          ELSE creds
              /\ tcall' = TokenCall("get_athlete_token", creds, o,
                                    IF o.kind = "raise" THEN NoToken
                                    ELSE IF YieldsTokens(o) THEN o.access_token
                                    ELSE creds.access_token)
       ELSE /\ tcall' = TokenCall("get_athlete_token", creds, NoRefresh,
                                  creds.access_token)
            /\ UNCHANGED <<creds, minted>>
    /\ UNCHANGED <<epoch, tokens>>
    /\ UNCHANGED <<parseVars, validateVars, escaped, exported, gateVars, uploadVars>>

\* time passes between two calls
Elapse ==
    /\ epoch < MaxEpoch
    /\ epoch' = epoch + 1
    /\ UNCHANGED <<tokens, creds, minted, tcall>>
    /\ UNCHANGED <<parseVars, validateVars, escaped, exported, gateVars, uploadVars>>

(***************************************************************************)
(* upload_fit_file                                                         *)
(***************************************************************************)
\* render_template('athlete_profile.html', ..., error=error)
Rendered(error) == [template |-> "athlete_profile.html", error |-> error]

\* os.remove(filepath)
Removed(d) == [d EXCEPT !.exists = FALSE]

\* the request has no file, no file name, or a name that does not end in
\* .fit: an error page, nothing saved
UploadReject ==
    /\ upc = "idle"
    /\ response' = Rendered(Str("No file / invalid file type"))
    /\ upc' = "done"
    /\ UNCHANGED <<parseVars, validateVars, escaped, exported, gateVars, tokenVars>>

\* file.save(filepath); when it raises, part of the file may be on disk
UploadSave ==
    /\ upc = "idle"
    /\ \E saved \in BOOLEAN :
          IF saved
          THEN /\ disk' = [disk EXCEPT !.exists = TRUE]
               /\ upc' = "validate"
          ELSE /\ \E partial \in BOOLEAN : disk' = [disk EXCEPT !.exists = partial]
               /\ upc' = "except"
    /\ UNCHANGED <<parseVars, vpc, vtrace, vresult, escaped, exported, response,
                   gateVars, tokenVars>>

\* validate_fit_file(filepath) runs
UploadValidateStep ==
    /\ upc = "validate"
    /\ \/ ValidateCall \/ CheckExists \/ CheckExtension \/ CheckSize
       \/ CheckEmpty \/ ValidateOpen \/ ValidateIterate

\* validate_fit_file is over: an exception goes to the handler's except
\* clause, an invalid file is removed and reported, a valid one is parsed
UploadValidated ==
    /\ upc = "validate"
    /\ vpc = "done"
    /\ IF escaped
       THEN /\ escaped' = FALSE
            /\ upc' = "except"
            /\ UNCHANGED <<disk, response>>
       ELSE IF ~vresult.is_valid
       THEN /\ disk' = Removed(disk)
            /\ response' = Rendered(Str("Invalid FIT file: <reason>"))
            /\ upc' = "done"
            /\ UNCHANGED escaped
       ELSE /\ upc' = "parse"
            /\ UNCHANGED <<disk, response, escaped>>
    /\ UNCHANGED <<parseVars, vpc, vtrace, vresult, exported, gateVars, tokenVars>>

\* parse_fit_file(filepath) runs, its second parameter left out
UploadParseStep ==
    /\ upc = "parse"
    /\ returned = <<>>
    /\ ParseOpen(1) \/ ReadMessage \/ DecodeError \/ Project
    /\ arg' = "omitted"
    /\ returned' # <<>> => returned'[1].arg = "omitted"

\* fault variant: the file is not removed after the parse
UploadParsedKeepsFile ==
    /\ upc = "parse"
    /\ pc = "idle"
    /\ returned # <<>> \/ escaped
    /\ IF escaped
       THEN /\ escaped' = FALSE
            /\ upc' = "except"
            /\ UNCHANGED <<disk, response>>
       ELSE /\ UNCHANGED disk
            /\ UNCHANGED escaped
            /\ IF IsNone(returned[1].value)
               THEN /\ response' = Rendered(Str("Failed to parse FIT file."))
                    /\ upc' = "done"
               ELSE /\ upc' = "display"
                    /\ UNCHANGED response
    /\ UNCHANGED <<parseVars, vpc, vtrace, vresult, exported, gateVars, tokenVars>>

\* parse_fit_file is over: the file is removed, then "if not activity"
\* reports a result that is None (a dict it returns is never empty) and any
\* other result is prepared for display
UploadParsed ==
    /\ upc = "parse"
    /\ pc = "idle"
    /\ returned # <<>> \/ escaped
    /\ IF escaped
       THEN /\ escaped' = FALSE
            /\ upc' = "except"
            /\ UNCHANGED <<disk, response>>
       ELSE /\ disk' = Removed(disk)
            /\ UNCHANGED escaped
            /\ IF IsNone(returned[1].value)
               THEN /\ response' = Rendered(Str("Failed to parse FIT file."))
                    /\ upc' = "done"
               ELSE /\ upc' = "display"
                    /\ UNCHANGED response
    /\ UNCHANGED <<parseVars, vpc, vtrace, vresult, exported, gateVars, tokenVars>>

\* the steps after the parse (name, display fields, session, template): they
\* end in the profile page, or one of them raises
UploadDisplay ==
    /\ upc = "display"
    /\ \E raises \in BOOLEAN :
          IF raises
          THEN /\ upc' = "except"
               /\ UNCHANGED response
          ELSE /\ response' = Rendered(None)
               /\ upc' = "done"
    /\ UNCHANGED <<parseVars, validateVars, escaped, exported, gateVars, tokenVars>>

\* except Exception: the file is removed if it exists, an error page is
\* rendered
UploadExcept ==
    /\ upc = "except"
    /\ disk' = IF disk.exists THEN Removed(disk) ELSE disk
    /\ response' = Rendered(Str("Error processing FIT file: <error>"))
    /\ upc' = "done"
    /\ UNCHANGED <<parseVars, vpc, vtrace, vresult, escaped, exported,
                   gateVars, tokenVars>>

\* no request has arrived
GateIdle ==
    /\ rate_limit = 0
    /\ sheet = EmptySheet(TRUE)
    /\ lock = 0
    /\ rpc = [r \in Requests |-> "start"]

\* no token call has been made
TokenIdle ==
    /\ epoch = 0
    /\ tokens = None
    /\ creds = None
    /\ minted = 0
    /\ tcall = None

\* no upload has arrived
UploadIdle ==
    /\ upc = "idle"
    /\ response = None

(***************************************************************************)
(* Specifications                                                          *)
(***************************************************************************)
vars == <<file, clock, pc, arg, cdata, pos, returned,
          disk, vpc, vtrace, vresult, escaped, exported, appVars>>

\* an existing, non-empty activity.fit
PlainDisk == [exists |-> TRUE, name |-> <<"a", ".", "f", "i", "t">>, size |-> 100]

ParserIdle(files) ==
    /\ file \in files
    /\ clock = 0
    /\ pc = "idle"
    /\ arg = "omitted"
    /\ cdata = NoData
    /\ pos = 0
    /\ returned = <<>>
    /\ vpc = "idle"
    /\ vtrace = <<>>
    /\ vresult = NoVerdict
    /\ escaped = FALSE
    /\ exported = <<>>

\* the parser at rest in an application that has served no request
ParseInit(files) ==
    /\ ParserIdle(files)
    /\ GateIdle /\ TokenIdle /\ UploadIdle

\* one parse_fit_file call on any file, and the export of what it returned
Init ==
    /\ ParseInit(Files \cup RunFiles)
    /\ disk = PlainDisk
Next == ParseOpen(1) \/ ReadMessage \/ DecodeError \/ Project \/ Export
Spec == Init /\ [][Next]_vars

\* repeated parse_fit_file calls on one file while the clock runs
InitRepeat ==
    /\ ParseInit(RepeatFiles)
    /\ disk = PlainDisk
NextRepeat == ParseOpen(MaxParses) \/ ReadMessage \/ Project \/ Tick
SpecRepeat == InitRepeat /\ [][NextRepeat]_vars

\* one parse_fit_file call on a file holding a track
InitTrack ==
    /\ ParseInit(TrackFiles \cup PositionFiles)
    /\ disk = PlainDisk
NextTrack == ParseOpen(1) \/ ReadMessage \/ Project
SpecTrack == InitTrack /\ [][NextTrack]_vars

\* one parse_fit_file call on a file of session summaries
InitSession ==
    /\ ParseInit(SessionFiles)
    /\ disk = PlainDisk
NextSession == ParseOpen(1) \/ ReadMessage \/ Project
SpecSession == InitSession /\ [][NextSession]_vars

\* one parse_fit_file call on a file of start times
InitStart ==
    /\ ParseInit(StartFiles)
    /\ disk = PlainDisk
NextStart == ParseOpen(1) \/ ReadMessage \/ Project
SpecStart == InitStart /\ [][NextStart]_vars

\* one parse_fit_file call on a file of altitudes and speeds
InitPrecision ==
    /\ ParseInit(PrecisionFiles)
    /\ disk = PlainDisk
NextPrecision == ParseOpen(1) \/ ReadMessage \/ Project
SpecPrecision == InitPrecision /\ [][NextPrecision]_vars

\* one parse_fit_file call on a file of laps, segments and zones
InitLaps ==
    /\ ParseInit(LapFiles)
    /\ disk = PlainDisk
NextLaps == ParseOpen(1) \/ ReadMessage \/ Project
SpecLaps == InitLaps /\ [][NextLaps]_vars

\* one parse_fit_file call on a file of samples to split
InitSplits ==
    /\ ParseInit(SplitFiles)
    /\ disk = PlainDisk
NextSplits == ParseOpen(1) \/ ReadMessage \/ Project
SpecSplits == InitSplits /\ [][NextSplits]_vars

\* a file with nothing in it, for the runs that parse nothing
NoFile == [msgs |-> <<>>, truncAt |-> 1]

\* concurrent api_analyze_activity requests of one client IP for one
\* provider on one day, the sheet holding no row of that IP yet
InitGate ==
    /\ ParserIdle({NoFile}) /\ disk = PlainDisk
    /\ TokenIdle /\ UploadIdle
    /\ rate_limit \in Limits
    /\ sheet \in {EmptySheet(h) : h \in BOOLEAN}
    /\ lock = 0
    /\ rpc = [r \in Requests |-> "start"]
NextGate ==
    \E r \in Requests : GateEnter(r) \/ GateAcquire(r) \/ GateCheck(r) \/ GateLog(r)
SpecGate == InitGate /\ [][NextGate]_vars

\* token calls against a token file and a credentials row that hold
\* nothing, or a token that expires around the buffer
InitToken ==
    /\ ParserIdle({NoFile}) /\ disk = PlainDisk
    /\ GateIdle /\ UploadIdle
    /\ epoch = 0
    /\ tokens \in {None} \cup {TokenData(1, 1, e) : e \in Expiries}
    /\ creds \in {None} \cup {TokenData(1, 1, e) : e \in Expiries}
    /\ minted = 0
    /\ tcall = None
NextToken == GetValidToken \/ GetAthleteToken \/ Elapse
SpecToken == InitToken /\ [][NextToken]_vars

\* file names and sizes the validator is given
Names ==
    {<<"a", ".", "f", "i", "t">>, <<"a", ".", "F", "I", "T">>,
     <<"a", ".", "F", "i", "t">>, <<"a", ".", "g", "p", "x">>,
     <<"f", "i", "t">>, <<"a", ".", "f", "i", "t", ".", "b">>}
Sizes == {0, 100, MaxFileSize, MaxFileSize + 1}

\* the files of the validator runs: those of session and unknown messages
ValidateFiles ==
    {f \in Files :
        \A i \in 1..Len(f.msgs) :
            f.msgs[i] \in {SessionMsg, UnknownMsg("unknown_140")}}

\* a missing path has nothing to decode, and neither has a file of no bytes
Disks ==
    {d \in [exists : BOOLEAN, name : Names, size : Sizes] :
        ~d.exists => d.size = 0}

\* validate_fit_file, and one parse_fit_file call, on any path
InitValidate ==
    /\ ParseInit(ValidateFiles)
    /\ disk \in Disks
    /\ disk.size = 0 => file.truncAt = 0
NextValidate ==
    \/ ValidateCall \/ CheckExists \/ CheckExtension \/ CheckSize \/ CheckEmpty
    \/ ValidateOpen \/ ValidateIterate
    \/ ParseOpen(1) \/ ReadMessage \/ DecodeError \/ Project
SpecValidate == InitValidate /\ [][NextValidate]_vars

\* the names secure_filename leaves of an upload whose name ends in .fit,
\* and the sizes a request of at most MAX_CONTENT_LENGTH bytes can hold
UploadNames ==
    {<<"a", ".", "f", "i", "t">>, <<"a", ".", "F", "I", "T">>, <<"f", "i", "t">>}
UploadSizes == {0, 100, MaxFileSize}

\* the uploads: the validator's files, and intact files of records without
\* an altitude fix, which pass the validator and fail in the projection
UploadFiles ==
    ValidateFiles
    \cup {f \in Files :
            /\ IsIntact(f)
            /\ \A i \in 1..Len(f.msgs) :
                  f.msgs[i] \in {SessionMsg, RecordNoFixMsg(700, 2000)}}

\* one upload_fit_file request; nothing is at filepath before it
InitUpload ==
    /\ ParserIdle(UploadFiles)
    /\ disk \in [exists : {FALSE}, name : UploadNames, size : UploadSizes]
    /\ disk.size = 0 => file.truncAt = 0
    /\ GateIdle /\ TokenIdle /\ UploadIdle
NextUpload ==
    \/ UploadReject \/ UploadSave \/ UploadValidateStep \/ UploadValidated
    \/ UploadParseStep \/ UploadParsed \/ UploadDisplay \/ UploadExcept
SpecUpload == InitUpload /\ [][NextUpload]_vars

(***************************************************************************)
(* Properties of the message buckets                                       *)
(***************************************************************************)
RECURSIVE SumOver(_, _)
SumOver(f, keys) ==
    IF keys = {} THEN 0
    ELSE LET x == CHOOSE y \in keys : TRUE IN f[x] + SumOver(f, keys \ {x})

\* the messages stored under type name
StoredOf(raw, name) ==
    IF name \in KnownBuckets THEN raw.buckets[name]
    ELSE IF name \in DOMAIN raw.other_messages THEN raw.other_messages[name]
    ELSE <<>>

\* messages stored across every named bucket and every list of other_messages
TotalStored(raw) ==
    SumOver([b \in KnownBuckets |-> Len(raw.buckets[b])], KnownBuckets)
    + SumOver([n \in DOMAIN raw.other_messages |-> Len(raw.other_messages[n])],
              DOMAIN raw.other_messages)

\* the first n messages of the file that are of type name, in file order
RECURSIVE OfType(_, _, _)
OfType(msgs, n, name) ==
    IF n = 0 THEN <<>>
    ELSE OfType(msgs, n - 1, name)
            \o (IF msgs[n].name = name THEN <<msgs[n]>> ELSE <<>>)

TypeNames(msgs) == {msgs[i].name : i \in 1..Len(msgs)}


\* data holds exactly the first n messages of the file, and counts them
BucketsCount(data, n) ==
    /\ TotalStored(data.raw_data) = n
    /\ SumOver(data.metadata.message_counts,
               DOMAIN data.metadata.message_counts) = n
    /\ DOMAIN data.metadata.message_counts = TypeNames(SubSeq(file.msgs, 1, n))
    /\ \A name \in TypeNames(file.msgs) \cup KnownBuckets :
          /\ Len(StoredOf(data.raw_data, name)) = Len(OfType(file.msgs, n, name))
          /\ name \in DOMAIN data.metadata.message_counts =>
                data.metadata.message_counts[name]
                    = Len(StoredOf(data.raw_data, name))

\* C1: while parse_fit_file_comprehensive consumes the decoded messages, and
\* in the wrapper it returns, the messages stored across all buckets number
\* exactly the messages taken from the decoder and the sum of message_counts,
\* and message_counts[name] is the number stored under name, for every type
C1_NoMessageLost ==
    /\ pc = "reading" => BucketsCount(cdata, pos)
    /\ \A i \in 1..Len(returned) :
          IsWrapper(returned[i].value) =>
              BucketsCount(returned[i].value, Len(file.msgs))

C1_Witness ==
    /\ returned # <<>>
    /\ IsWrapper(returned[1].value)
    /\ Len(file.msgs) = 3
    /\ \E n \in DOMAIN returned[1].value.raw_data.other_messages :
          Len(returned[1].value.raw_data.other_messages[n]) = 2
    /\ returned[1].value.raw_data.buckets["session"] # <<>>

\* raw_data as the loop builds it from a whole message sequence
RECURSIVE RawOf(_, _)
RawOf(msgs, n) ==
    IF n = 0 THEN InitRawData
    ELSE StoreMessage(RawOf(msgs, n - 1), msgs[n].name, RecordDict(msgs[n]))

\* the messages of the named buckets only
RECURSIVE KnownOnly(_, _)
KnownOnly(msgs, n) ==
    IF n = 0 THEN <<>>
    ELSE KnownOnly(msgs, n - 1)
            \o (IF msgs[n].name \in KnownBuckets THEN <<msgs[n]>> ELSE <<>>)

RECURSIVE MapRecordDict(_, _)
MapRecordDict(msgs, n) ==
    IF n = 0 THEN <<>> ELSE Append(MapRecordDict(msgs, n - 1), RecordDict(msgs[n]))

\* C2: every message of a type outside the named buckets is appended, in
\* arrival order, to other_messages[type], and a file that holds such
\* messages parses exactly as it does without them: the result is None only
\* if the named-bucket messages alone make the projection raise, and
\* otherwise its strava_format is populated and the same
C2_UnknownKept ==
    /\ pc = "reading" =>
          \A name \in TypeNames(file.msgs) \ KnownBuckets :
              StoredOf(cdata.raw_data, name)
                  = MapRecordDict(OfType(file.msgs, pos, name),
                                  Len(OfType(file.msgs, pos, name)))
    /\ \A i \in 1..Len(returned) :
          IsIntact(file) =>
              LET known == KnownOnly(file.msgs, Len(file.msgs))
                  v == returned[i].value
              IN  /\ IsNone(v) <=> ProjectionRaises(RawOf(known, Len(known)))
                  /\ ~IsNone(v) =>
                        /\ ~IsNone(ActivityOf(v))
                        /\ ActivityOf(v) =
                              GenerateStravaFormat(RawOf(known, Len(known)), clock)
                  /\ IsWrapper(v) =>
                        \A name \in TypeNames(file.msgs) \ KnownBuckets :
                            v.raw_data.other_messages[name]
                                = MapRecordDict(
                                    OfType(file.msgs, Len(file.msgs), name),
                                    Len(OfType(file.msgs, Len(file.msgs), name)))

C2_Witness ==
    /\ returned # <<>>
    /\ IsWrapper(returned[1].value)
    /\ DOMAIN returned[1].value.raw_data.other_messages
          = {"unknown_140", "gps_metadata"}
    /\ returned[1].value.raw_data.buckets["record"] # <<>>
    /\ ~IsNone(returned[1].value.strava_format)

(***************************************************************************)
(* Properties of parse_fit_file's return value                             *)
(***************************************************************************)
\* a wrapper with every message bucketed and strava_format projected, or the
\* projected activity itself
IsComplete(v) ==
    \/ /\ IsWrapper(v)
       /\ ~IsNone(v.strava_format)
       /\ IsActivity(v.strava_format)
       /\ v.raw_data = RawOf(file.msgs, Len(file.msgs))
       /\ TotalStored(v.raw_data) = Len(file.msgs)
    \/ /\ IsActivity(v)
       /\ v.gps_track = GpsTrack(RawOf(file.msgs, Len(file.msgs)))

\* C3: parse_fit_file returns None or a complete result, never a partly
\* built one, and it returns None whenever the decoder raises (at open or
\* while iterating) or a step of the projection raises; no exception leaves it
C3_AllOrNothing ==
    /\ ~escaped
    /\ \A i \in 1..Len(returned) :
          LET v == returned[i].value IN
          /\ IsNone(v) \/ IsComplete(v)
          /\ (~IsIntact(file)
              \/ ProjectionRaises(RawOf(file.msgs, Len(file.msgs)))) => IsNone(v)

\* an intact file whose every message was bucketed and whose projection then
\* raised: the call returned None
C3_Witness ==
    /\ returned # <<>>
    /\ IsNone(returned[1].value)
    /\ Len(file.msgs) >= 2
    /\ IsIntact(file)
    /\ ProjectionRaises(RawOf(file.msgs, Len(file.msgs)))

\* C4: parse_fit_file called without the comprehensive argument returns the
\* Strava-compatible activity dict itself; the wrapper is returned only when
\* comprehensive=True is passed, and comprehensive=False gives exactly the
\* wrapper's strava_format
C4_DefaultIsActivity ==
    \A i \in 1..Len(returned) :
        LET v == returned[i].value IN
        ~IsNone(v) =>
            /\ returned[i].arg = "omitted" => IsActivity(v)
            /\ IsWrapper(v) => returned[i].arg = "True"
            /\ returned[i].arg = "False" =>
                  v = GenerateStravaFormat(RawOf(file.msgs, Len(file.msgs)), clock)

\* C10: a file of one file_id (created at T), one session (running, 5000 m,
\* 1800 s, average heart rate 150) and five records 1000 m and 360 s apart
\* from T on parses to type Run, distance 5000, moving_time 1800,
\* has_heartrate, average_heartrate 150 and exactly four kilometre splits,
\* numbered 1..4, each of 360 s at 1000/360 m/s
C10_FiveKilometreRun ==
    (file \in RunFiles /\ returned # <<>>) =>
        LET v == returned[1].value IN
        /\ ~IsNone(v)
        /\ LET a == ActivityOf(v) IN
           /\ a.type = "Run"
           /\ a.distance = Num(5000)
           /\ a.moving_time = Num(1800)
           /\ a.has_heartrate = TRUE
           /\ a.average_heartrate = Num(150)
           /\ Len(a.splits_metric) = 4
           /\ \A n \in 1..Len(a.splits_metric) :
                 /\ a.splits_metric[n].split = n
                 /\ a.splits_metric[n].elapsed_time = 360
                 /\ RatEq(a.splits_metric[n].average_speed, Rat(1000, 360))

C10_Witness ==
    /\ file \in RunFiles
    /\ file.msgs[1].fields["time_created"].value.t > 0
    /\ file.msgs[7].name = "session"
    /\ returned # <<>>
    /\ IsWrapper(returned[1].value)
    /\ Len(returned[1].value.strava_format.splits_metric) = 4

(***************************************************************************)
(* Properties of validate_fit_file                                         *)
(***************************************************************************)
CheckOrder == <<"exists", "extension", "size", "empty", "open", "iterate">>

HasFitExtension(d) == EndsWith(Lower(d.name), DotFit)

\* the decoder raises on the file, at open or while iterating
DecoderFails(d, f) == OpenRaises(d, f) \/ ~IsIntact(f)

\* the checks (a)..(e) that the path fails, by their place in CheckOrder;
\* (e), the decoder yielding a message, is place 5
FailingChecks(d, f) ==
    {n \in 1..5 :
        \/ n = 1 /\ ~d.exists
        \/ n = 2 /\ ~HasFitExtension(d)
        \/ n = 3 /\ d.size > MaxFileSize
        \/ n = 4 /\ d.size = 0
        \/ n = 5 /\ (DecoderFails(d, f) \/ f.msgs = <<>>)}

ReasonsOf(n) ==
    CASE n = 1 -> {Str("File does not exist")}
      [] n = 2 -> {Str("File must have .fit extension")}
      [] n = 3 -> {Str("FIT file is too large (max 50 MB)")}
      [] n = 4 -> {Str("FIT file is empty")}
      [] OTHER -> {InvalidFormat, Str("FIT file contains no data")}

InTrace(step) == \E i \in 1..Len(vtrace) : vtrace[i] = step

\* C5: validate_fit_file runs its checks in the order exists, extension,
\* size cap, non-empty, decoder, and returns at the first that fails: the
\* reason is that of the earliest failing check, no later check runs, and
\* the decoder is not called when one of the first four checks fails
C5_ChecksInOrder ==
    /\ Len(vtrace) <= Len(CheckOrder)
    /\ vtrace = SubSeq(CheckOrder, 1, Len(vtrace))
    /\ (FailingChecks(disk, file) \cap 1..4 # {}) =>
          (~InTrace("open") /\ ~InTrace("iterate"))
    /\ (vpc = "done" /\ FailingChecks(disk, file) # {}) =>
          LET first == SetMin(FailingChecks(disk, file)) IN
          /\ ~vresult.is_valid
          /\ vresult.reason \in ReasonsOf(first)
          /\ first <= 4 => Len(vtrace) = first
    /\ (vpc = "done" /\ FailingChecks(disk, file) = {}) => vresult.is_valid

\* a file failing the extension, the size and the decoder check at once
C5_Witness ==
    /\ vpc = "done"
    /\ {2, 4, 5} \subseteq FailingChecks(disk, file)
    /\ vresult.reason = Str("File must have .fit extension")

\* C6 as stated: a zero-byte .fit file gives (False, "file is empty")
C6_ReasonsAsStated ==
    vpc = "done" =>
        /\ ~disk.exists => vresult = Verdict(FALSE, Str("File does not exist"))
        /\ (disk.exists /\ ~HasFitExtension(disk)) =>
              vresult = Verdict(FALSE, Str("File must have .fit extension"))
        /\ (disk.exists /\ HasFitExtension(disk) /\ disk.size = 0) =>
              vresult = Verdict(FALSE, Str("file is empty"))
        /\ (disk.exists /\ HasFitExtension(disk) /\ disk.size > MaxFileSize) =>
              vresult = Verdict(FALSE, Str("FIT file is too large (max 50 MB)"))

\* C6: a non-existent path gives (False, "File does not exist"); an existing
\* file with a wrong extension gives the extension error; a zero-byte .fit
\* file gives (False, "FIT file is empty"); a .fit file above the size cap
\* gives the size-limit error
C6_Reasons ==
    vpc = "done" =>
        /\ ~disk.exists => vresult = Verdict(FALSE, Str("File does not exist"))
        /\ (disk.exists /\ ~HasFitExtension(disk)) =>
              vresult = Verdict(FALSE, Str("File must have .fit extension"))
        /\ (disk.exists /\ HasFitExtension(disk) /\ disk.size = 0) =>
              vresult = Verdict(FALSE, Str("FIT file is empty"))
        /\ (disk.exists /\ HasFitExtension(disk) /\ disk.size > MaxFileSize) =>
              vresult = Verdict(FALSE, Str("FIT file is too large (max 50 MB)"))

C6_Witness ==
    /\ vpc = "done"
    /\ disk.exists
    /\ disk.name = <<"a", ".", "F", "I", "T">>
    /\ disk.size = 0
    /\ vtrace = <<"exists", "extension", "size", "empty">>

\* C7: on a file the decoder fails on, at open or while iterating,
\* validate_fit_file returns (False, reason) with a reason and parse_fit_file
\* returns None; no exception leaves either entry point; and in every outcome
\* of validate_fit_file the reason is None exactly when is_valid is true
C7_DecoderFailureReported ==
    /\ ~escaped
    /\ (vpc = "done" /\ DecoderFails(disk, file)) =>
          (~vresult.is_valid /\ ~IsNone(vresult.reason))
    /\ \A i \in 1..Len(returned) :
          DecoderFails(disk, file) => IsNone(returned[i].value)
    /\ vpc = "done" => (IsNone(vresult.reason) <=> vresult.is_valid)

\* a truncated file that passed the cheap checks, validated and parsed
C7_Witness ==
    /\ vpc = "done"
    /\ InTrace("iterate")
    /\ ~IsIntact(file)
    /\ file.truncAt >= 1
    /\ vresult = Verdict(FALSE, InvalidFormat)
    /\ returned # <<>>
    /\ IsNone(returned[1].value)

(***************************************************************************)
(* Properties of repeated parses                                           *)
(***************************************************************************)
EraseId(a) == [a EXCEPT !.id = None]
EraseParsedAt(w) ==
    [w EXCEPT !.metadata.parsed_at = None, !.strava_format.id = None]

\* C8: any two successful parses of the same message sequence return
\* activities equal in every field but id, and wrappers equal in everything
\* but strava_format.id and metadata.parsed_at, whatever the clock read and
\* whatever was parsed before
C8_SameInputSameActivity ==
    \A i, j \in 1..Len(returned) :
        LET v == returned[i].value
            w == returned[j].value
        IN  (~IsNone(v) /\ ~IsNone(w)) =>
                /\ EraseId(ActivityOf(v)) = EraseId(ActivityOf(w))
                /\ (IsWrapper(v) /\ IsWrapper(w)) =>
                      EraseParsedAt(v) = EraseParsedAt(w)

\* two parses of a file with no start date, made at different clock readings
C8_Witness ==
    /\ Len(returned) >= 2
    /\ IsWrapper(returned[1].value)
    /\ IsWrapper(returned[2].value)
    /\ file.msgs # <<>>
    /\ IsNone(returned[1].value.strava_format.start_date)
    /\ returned[1].value.strava_format.id # returned[2].value.strava_format.id
    /\ returned[1].value.metadata.parsed_at # returned[2].value.metadata.parsed_at

\* C9: any two parse invocations produce different strava_format id values
C9_IdsDiffer ==
    \A i, j \in 1..Len(returned) :
        (i # j /\ ~IsNone(returned[i].value) /\ ~IsNone(returned[j].value)) =>
            ActivityOf(returned[i].value).id # ActivityOf(returned[j].value).id

(***************************************************************************)
(* Properties of the splits                                                *)
(***************************************************************************)
\* the activities the completed calls returned
ReturnedActivities ==
    {ActivityOf(returned[i].value) :
        i \in {j \in 1..Len(returned) : ~IsNone(returned[j].value)}}

SplitsWellFormed(splits) ==
    \A n \in 1..Len(splits) :
        /\ splits[n].split = n
        /\ splits[n].elapsed_time >= 0
        /\ splits[n].elapsed_time = 0 =>
              RatEq(splits[n].average_speed, Rat(0, 1))

\* C11: in every split list _calculate_splits_from_gps returns, for either
\* bucket size, the split indices are 1, 2, 3, ... in list order, every
\* elapsed_time is >= 0, and a split of elapsed_time 0 has average_speed 0
C11_SplitsWellFormed ==
    \A a \in ReturnedActivities :
        /\ SplitsWellFormed(a.splits_standard)
        /\ SplitsWellFormed(a.splits_metric)

\* the record message carries a distance value
CarriesDistance(m) ==
    /\ m.name = "record"
    /\ "distance" \in DOMAIN m.fields
    /\ ~IsNone(m.fields["distance"].value)

NoDistanceData(msgs) == \A i \in 1..Len(msgs) : ~CarriesDistance(msgs[i])

\* C12: in every parse result, if no record message carries a distance
\* value, or the activity's total distance is zero, then splits_standard
\* and splits_metric are both empty lists
C12_NoDistanceNoSplits ==
    \A a \in ReturnedActivities :
        (NoDistanceData(file.msgs) \/ a.distance = Num(0)) =>
            (a.splits_standard = <<>> /\ a.splits_metric = <<>>)

\* a session of total distance 0 over a track that reaches 4000 m
C12_Witness ==
    /\ returned # <<>>
    /\ ~IsNone(returned[1].value)
    /\ file.msgs # <<>>
    /\ file.msgs[1] = SessionZeroMsg
    /\ LET a == ActivityOf(returned[1].value) IN
       /\ a.distance = Num(0)
       /\ Len(a.gps_track) = 3
       /\ a.gps_track[3] = GpsPoint(RecordDict(RecordMsg(100, 4000)))
       /\ a.splits_metric = <<>>

(***************************************************************************)
(* Properties of the projection on partial data                            *)
(***************************************************************************)
\* every field of every message of the file is optional: any of them may be
\* absent or hold None, and the decoder delivers the whole file
OnlyPartialData(f) ==
    /\ IsIntact(f)
    /\ \A i \in 1..Len(f.msgs) : f.msgs[i].name \in {"session", "record"}

\* C13: partial data never makes a parse fail: on a message sequence whose
\* optional fields (heart rate, position, altitude, distance, speed, power,
\* session totals) are absent or None on any subset of the messages,
\* parse_fit_file returns a non-null result
C13_PartialDataParses ==
    OnlyPartialData(file) =>
        \A i \in 1..Len(returned) : ~IsNone(returned[i].value)

\* the altitudes the GPS points of a track carried
CarriedAltitudes(gps_track) ==
    {gps_track[i]["altitude"].n :
        i \in {j \in 1..Len(gps_track) :
                    /\ "altitude" \in DOMAIN gps_track[j]
                    /\ IsNum(gps_track[j]["altitude"])}}

\* C14: in every parse result, elev_high and elev_low are the maximum and
\* the minimum altitude over all GPS points that carried altitude; so
\* elev_high >= elev_low whenever both are non-null, and both are null when
\* no point carried altitude
C14_ElevationExtremes ==
    \A a \in ReturnedActivities :
        LET carried == CarriedAltitudes(a.gps_track) IN
        /\ carried = {} => (IsNone(a.elev_high) /\ IsNone(a.elev_low))
        /\ carried # {} =>
              /\ a.elev_high = Num(SetMax(carried))
              /\ a.elev_low = Num(SetMin(carried))
        /\ (~IsNone(a.elev_high) /\ ~IsNone(a.elev_low)) =>
              a.elev_high.n >= a.elev_low.n

\* a track that climbs from 10 m to 50 m and has a point without altitude
C14_Witness ==
    \E a \in ReturnedActivities :
        /\ Len(a.gps_track) = 3
        /\ "altitude" \in DOMAIN a.gps_track[1]
        /\ a.gps_track[1]["altitude"] = Num(10)
        /\ \E i \in 2..3 : "altitude" \notin DOMAIN a.gps_track[i]
        /\ a.elev_high = Num(50)
        /\ a.elev_low = Num(10)

(***************************************************************************)
(* Properties of the GPS positions                                         *)
(***************************************************************************)
\* the record messages of a file, in file order
RecordsOf(msgs) == OfType(msgs, Len(msgs), "record")

\* deg = semicircles * 180 / 2^31
IsDegreesOf(deg, semicircles) ==
    /\ deg.n = semicircles
    /\ deg.times.num * 4 = 180
    /\ deg.times.den = 2^(31 - 2)

\* -bound <= deg <= bound, for bound a whole multiple of deg.times.num:
\* with bound = per * num, |n| * num / den <= bound iff |n| <= per * den
WithinDegrees(deg, bound) ==
    LET per == bound \div deg.times.num IN
    IF deg.n >= 0
    THEN (deg.n \div per) + (IF deg.n % per = 0 THEN 0 ELSE 1) <= deg.times.den
    ELSE (-(deg.n + 1)) \div per < deg.times.den

\* C15: every GPS point built from a record message with position_lat /
\* position_long present has lat = position_lat * 180 / 2^31 and
\* lng = position_long * 180 / 2^31, with lat in [-90, 90] and lng in
\* [-180, 180], for every semicircle value the decoder can deliver
C15_DegreesInRange ==
    \A a \in ReturnedActivities :
        LET records == RecordsOf(file.msgs) IN
        Len(a.gps_track) = Len(records) =>
            \A i \in 1..Len(records) :
                LET f == records[i].fields
                    point == a.gps_track[i]
                IN  /\ ("position_lat" \in DOMAIN f
                            /\ IsNum(f["position_lat"].value)) =>
                          /\ IsDegreesOf(point["lat"], f["position_lat"].value.n)
                          /\ WithinDegrees(point["lat"], 90)
                    /\ ("position_long" \in DOMAIN f
                            /\ IsNum(f["position_long"].value)) =>
                          /\ IsDegreesOf(point["lng"], f["position_long"].value.n)
                          /\ WithinDegrees(point["lng"], 180)

(***************************************************************************)
(* Properties of the parse of an empty file                                *)
(***************************************************************************)
\* C16: parsing a well-framed file from which the decoder yields zero
\* messages fails: parse_fit_file returns no result rather than a
\* default-valued activity
C16_EmptyFileFails ==
    (IsIntact(file) /\ file.msgs = <<>>) =>
        \A i \in 1..Len(returned) : IsNone(returned[i].value)

(***************************************************************************)
(* Properties of the export                                                *)
(***************************************************************************)
\* the field of message number n of type name as the decoder delivered it
DecodedOfType(name) == OfType(file.msgs, Len(file.msgs), name)

\* every stored value is the decoded one, a datetime as its ISO-8601 string
\* and a value of a non-native type as its str() form
StoredAsText(raw) ==
    \A name \in TypeNames(file.msgs) :
        \A n \in 1..Len(StoredOf(raw, name)) :
            LET stored == StoredOf(raw, name)[n]
                decoded == DecodedOfType(name)[n].fields
            IN  \A f \in DOMAIN stored :
                    LET v == decoded[f].value IN
                    stored[f].value =
                        CASE v.k = "datetime" -> IsoStr(v.t, FALSE)
                          [] v.k \in {"tuple", "opaque"} -> Str(v.s)
                          [] OTHER -> v

\* C17: every value stored in a comprehensive parse result (each field's
\* value, units and raw_value, and the metadata) is JSON-representable:
\* datetimes are ISO-8601 strings and a value of a non-native type is its
\* string form; so export_comprehensive_data on any result returns True
\* (given an output path that can be opened for writing)
C17_ExportSucceeds ==
    /\ \A i \in 1..Len(returned) :
          IsWrapper(returned[i].value) =>
              /\ StoredAsText(returned[i].value.raw_data)
              /\ \A v \in Leaves(returned[i].value) : JsonEncodes(v)
    /\ \A i \in 1..Len(exported) :
          exported[i].writable => exported[i].result = TRUE

\* a wrapper holding a datetime field and fields of non-native types,
\* exported to a writable path
C17_Witness ==
    /\ exported # <<>>
    /\ exported[1].writable
    /\ exported[1].result = TRUE
    /\ IsWrapper(returned[1].value)
    /\ returned[1].value.raw_data.buckets["file_id"] # <<>>
    /\ "gps_metadata" \in DOMAIN returned[1].value.raw_data.other_messages
    /\ returned[1].value.raw_data.buckets["record"] # <<>>

(***************************************************************************)
(* Properties of the session summary                                       *)
(***************************************************************************)
\* the fields of the first session message of the file, as decoded
FirstSessionFields ==
    LET sessions == OfType(file.msgs, Len(file.msgs), "session") IN
    IF sessions = <<>> THEN EmptyDict ELSE sessions[1].fields

\* the first session carries one of the fields with a non-null value
CarriesNonNull(names) ==
    \E f \in names :
        /\ f \in DOMAIN FirstSessionFields
        /\ ~IsNone(FirstSessionFields[f].value)

\* C18: has_heartrate is true exactly when the first session message
\* carries avg_heart_rate or max_heart_rate with a non-null value, and
\* has_power exactly when it carries avg_power or max_power with a non-null
\* value
C18_FlagsWhenNonNull ==
    \A a \in ReturnedActivities :
        /\ a.has_heartrate = CarriesNonNull({"avg_heart_rate", "max_heart_rate"})
        /\ a.has_power = CarriesNonNull({"avg_power", "max_power"})

\* the spellings tried of the five sports named in the map
SpellingsOf(sport) ==
    CASE sport = "running" -> {"running", "Running", "RUNNING"}
      [] sport = "cycling" -> {"cycling", "Cycling", "CYCLING"}
      [] sport = "walking" -> {"walking", "Walking"}
      [] sport = "hiking" -> {"hiking", "Hiking"}
      [] sport = "swimming" -> {"swimming", "Swimming"}

FiveSports == {"running", "cycling", "walking", "hiking", "swimming"}
ListedSpellings == UNION {SpellingsOf(sport) : sport \in FiveSports}

\* the first session has a sport field
SportPresent == "sport" \in DOMAIN FirstSessionFields
SportValue == FirstSessionFields["sport"].value

\* the first session's sport is a name other than the five
UnlistedSport ==
    /\ SportPresent
    /\ IsStr(SportValue)
    /\ SportValue.s \notin ListedSpellings

\* C19 as stated: a sport value that is present in the session but is none
\* of running, cycling, walking, hiking, swimming (in any letter case)
\* yields activity type "Workout"
C19_UnlistedIsWorkout ==
    \A a \in ReturnedActivities :
        (SportPresent /\ ~IsNone(SportValue)
            /\ (IsStr(SportValue) => SportValue.s \notin ListedSpellings)) =>
                a.type = "Workout"

\* C19: a sport value that is present in the session but is none of
\* running, cycling, walking, hiking, swimming (in any letter case) yields
\* activity type "Workout" when it is the name generic (in any letter case)
\* and "Run" otherwise
C19_UnlistedIsRunUnlessGeneric ==
    \A a \in ReturnedActivities :
        (SportPresent /\ ~IsNone(SportValue)
            /\ (IsStr(SportValue) => SportValue.s \notin ListedSpellings)) =>
                a.type = IF IsStr(SportValue)
                            /\ SportValue.s \in {"generic", "Generic"}
                         THEN "Workout" ELSE "Run"

\* a parsed file whose first session's sport is Rowing
C19_Witness ==
    /\ UnlistedSport
    /\ SportValue = Str("Rowing")
    /\ \E a \in ReturnedActivities : a.type = "Run"

TypeOfSport(sport) ==
    CASE sport = "running" -> "Run"
      [] sport = "cycling" -> "Ride"
      [] sport = "walking" -> "Walk"
      [] sport = "hiking" -> "Hike"
      [] sport = "swimming" -> "Swim"

\* C20: the activity type is Run, Ride, Walk, Hike or Swim when the first
\* session's sport is running, cycling, walking, hiking or swimming, in any
\* letter case, and is "Run" when there is no session message or the
\* session has no sport field
C20_TypeOfListedSport ==
    \A a \in ReturnedActivities :
        /\ \A sport \in FiveSports :
              (SportPresent /\ IsStr(SportValue)
                  /\ SportValue.s \in SpellingsOf(sport)) =>
                    a.type = TypeOfSport(sport)
        /\ ~SportPresent => a.type = "Run"

\* a file of two sessions, the first of sport CYCLING, parsed to a Ride
C20_Witness ==
    /\ Len(file.msgs) = 2
    /\ SportPresent
    /\ SportValue = Str("CYCLING")
    /\ \E a \in ReturnedActivities : a.type = "Ride"

(***************************************************************************)
(* Properties of the split boundaries                                      *)
(***************************************************************************)
\* the distance of sample number p (from 1) of a track, in metres
DistanceAt(gps_track, p) == PointDistance(gps_track[p]).n

\* the sample that ends split number n: the first one after the previous
\* boundary whose distance has reached n bucket sizes; boundary 0 is the
\* first sample; 0 when there is no such sample
RECURSIVE Boundary(_, _, _)
Boundary(gps_track, size, n) ==
    IF n = 0 THEN 1
    ELSE LET before == Boundary(gps_track, size, n - 1)
             reached == {p \in (before + 1)..Len(gps_track) :
                            100 * DistanceAt(gps_track, p) >= n * size}
         IN  IF before = 0 \/ reached = {} THEN 0 ELSE SetMin(reached)

\* the split lists of an activity with their bucket sizes
SplitLists(a) ==
    {[splits |-> a.splits_standard, size |-> MileSplit],
     [splits |-> a.splits_metric, size |-> KmSplit]}

\* C21 as stated: every split's average_speed equals the split's nominal
\* bucket distance (1609.34 or 1000.0) divided by the split's elapsed time,
\* and is 0 when the elapsed time is 0
C21_SpeedOfNominalDistance ==
    \A a \in ReturnedActivities : \A l \in SplitLists(a) :
        \A n \in 1..Len(l.splits) :
            LET split == l.splits[n] IN
            IF split.elapsed_time = 0
            THEN RatEq(split.average_speed, Rat(0, 1))
            ELSE RatEq(split.average_speed, Rat(l.size, 100 * split.elapsed_time))

\* C21: every split's average_speed equals the distance between the
\* split's two boundary samples divided by the split's elapsed time when
\* that time is positive, and is 0 otherwise
C21_SpeedOfCoveredDistance ==
    \A a \in ReturnedActivities : \A l \in SplitLists(a) :
        \A n \in 1..Len(l.splits) :
            LET split == l.splits[n]
                start == Boundary(a.gps_track, l.size, n - 1)
                end == Boundary(a.gps_track, l.size, n)
            IN  /\ end # 0
                /\ IF split.elapsed_time > 0
                   THEN RatEq(split.average_speed,
                              Rat(DistanceAt(a.gps_track, end)
                                    - DistanceAt(a.gps_track, start),
                                  split.elapsed_time))
                   ELSE RatEq(split.average_speed, Rat(0, 1))

\* a kilometre split that ends 500 m past its mark, 400 s after it began
C21_Witness ==
    \E a \in ReturnedActivities :
        /\ Len(a.splits_metric) = 2
        /\ a.splits_metric[2].elapsed_time = 400
        /\ RatEq(a.splits_metric[2].average_speed, Rat(1500, 400))

\* the distances of a track never decrease from one sample to the next
NonDecreasing(gps_track) ==
    \A p \in 1..(Len(gps_track) - 1) :
        DistanceAt(gps_track, p) <= DistanceAt(gps_track, p + 1)

\* C22: for a non-decreasing distance sequence the number of splits equals
\* the number of whole bucket multiples covered by the last sample's
\* distance, also when one sample crosses several multiples or the first
\* sample is already past a multiple
C22_SplitPerMultiple ==
    \A a \in ReturnedActivities :
        (/\ a.gps_track # <<>>
         /\ IsNum(a.distance) /\ a.distance.n > 0
         /\ NonDecreasing(a.gps_track)) =>
            \A l \in SplitLists(a) :
                Len(l.splits) =
                    (100 * DistanceAt(a.gps_track, Len(a.gps_track))) \div l.size

\* the samples (numbered from 1) among ps that carry a heart rate
WithHeartRate(gps_track, ps) ==
    {p \in ps : /\ "heartrate" \in DOMAIN gps_track[p]
                /\ ~IsNone(gps_track[p]["heartrate"])}

RECURSIVE HeartRateSum(_, _)
HeartRateSum(gps_track, ps) ==
    IF ps = {} THEN 0
    ELSE LET p == CHOOSE x \in ps : TRUE
         IN  gps_track[p]["heartrate"].n + HeartRateSum(gps_track, ps \ {p})

\* avg is the arithmetic mean of the heart rates of the samples ps, and null
\* when none of them carries one
IsMeanHeartRate(avg, gps_track, ps) ==
    LET hr == WithHeartRate(gps_track, ps) IN
    IF hr = {} THEN IsNone(avg)
    ELSE /\ ~IsNone(avg)
         /\ avg.num * Cardinality(hr) = HeartRateSum(gps_track, hr) * avg.den

\* the windows between two boundaries that give no sample to two
\* consecutive splits: without both boundaries, or without one of them
DisjointWindows ==
    {[first |-> 1, last |-> 1], [first |-> 1, last |-> 0], [first |-> 0, last |-> 1]}

\* every split's average is the mean over the window from its start
\* boundary plus w.first to its end boundary minus w.last
MeansOverWindows(a, w) ==
    \A l \in SplitLists(a) : \A n \in 1..Len(l.splits) :
        LET start == Boundary(a.gps_track, l.size, n - 1)
            end == Boundary(a.gps_track, l.size, n)
        IN  /\ end # 0
            /\ IsMeanHeartRate(l.splits[n].average_heartrate, a.gps_track,
                               (start + w.first)..(end - w.last))

\* C23 as stated: a split's average_heartrate is the mean of the non-null
\* heart rates of the samples strictly within the split's window, no
\* sample being counted in two consecutive splits, and null when the window
\* holds none
C23_MeanWithinDisjointWindow ==
    \A a \in ReturnedActivities : \E w \in DisjointWindows : MeansOverWindows(a, w)

\* C23: a split's average_heartrate is the mean of the non-null heart rates
\* of the samples from the split's start boundary to its end boundary, both
\* included, and null when none of them has one
C23_MeanOverBoundedWindow ==
    \A a \in ReturnedActivities : MeansOverWindows(a, [first |-> 0, last |-> 0])

\* the sample on the first kilometre mark (heart rate 140) counts in the
\* first split with the sample before it (100) and in the second with the
\* sample after it (180)
C23_Witness ==
    \E a \in ReturnedActivities :
        /\ Len(a.splits_metric) = 2
        /\ ~IsNone(a.splits_metric[1].average_heartrate)
        /\ ~IsNone(a.splits_metric[2].average_heartrate)
        /\ RatEq(a.splits_metric[1].average_heartrate, Rat(120, 1))
        /\ RatEq(a.splits_metric[2].average_heartrate, Rat(160, 1))

(***************************************************************************)
(* Properties of the session and the start time                            *)
(***************************************************************************)
\* the first n messages without the session messages after the first one
RECURSIVE WithoutLaterSessions(_, _)
WithoutLaterSessions(msgs, n) ==
    IF n = 0 THEN <<>>
    ELSE LET before == WithoutLaterSessions(msgs, n - 1)
             later == /\ msgs[n].name = "session"
                      /\ \E i \in 1..(n - 1) : msgs[i].name = "session"
         IN  IF later THEN before ELSE Append(before, msgs[n])

SessionCount(msgs) ==
    Cardinality({i \in 1..Len(msgs) : msgs[i].name = "session"})

\* C24: the activity parsed from a file equals, in every field but id, the
\* activity of the same file without its session messages after the first:
\* adding, removing or changing a later session message changes no field
C24_FirstSessionOnly ==
    \A a \in ReturnedActivities :
        LET first == WithoutLaterSessions(file.msgs, Len(file.msgs)) IN
        EraseId(a) = EraseId(GenerateStravaFormat(RawOf(first, Len(first)), 0))

\* a run read from the first session of a file whose second session is a
\* walk of another start time and distance
C24_Witness ==
    /\ SessionCount(file.msgs) = 2
    /\ \E i \in 2..Len(file.msgs) :
          file.msgs[i] = TimedSession(Datetime(30), Str("walking"), Num(3000))
    /\ \E a \in ReturnedActivities :
          /\ a.type = "Run"
          /\ a.distance = Num(5000)
          /\ a.average_heartrate = Num(150)

\* the timestamp the first message of the given name supplies in the given
\* field, None when there is no such message, no such field, or a value that
\* is no timestamp
SuppliedTime(msgs, name, field) ==
    LET idx == {i \in 1..Len(msgs) : msgs[i].name = name} IN
    IF idx = {} THEN None
    ELSE LET m == msgs[SetMin(idx)] IN
         IF field \in DOMAIN m.fields /\ m.fields[field].value.k = "datetime"
         THEN m.fields[field].value
         ELSE None

\* C25: start_date is the first session's start_time when the session
\* supplies one, whatever the file_id holds, else the first file_id's
\* time_created; a non-null start_date ends with 'Z' and start_date_local is
\* the same timestamp without 'Z'; both are null together
C25_StartTimeSource ==
    \A a \in ReturnedActivities :
        LET fromSession == SuppliedTime(file.msgs, "session", "start_time")
            fromFile == SuppliedTime(file.msgs, "file_id", "time_created")
            start == IF ~IsNone(fromSession) THEN fromSession ELSE fromFile
        IN  /\ IF IsNone(start)
               THEN IsNone(a.start_date) /\ IsNone(a.start_date_local)
               ELSE /\ a.start_date = IsoStr(start.t, TRUE)
                    /\ a.start_date_local = IsoStr(start.t, FALSE)
            /\ IsNone(a.start_date) <=> IsNone(a.start_date_local)
            /\ ~IsNone(a.start_date) =>
                  /\ endswithZ(a.start_date)
                  /\ ~endswithZ(a.start_date_local)
                  /\ a.start_date = appendZ(a.start_date_local)

\* a file created at 10 whose first session started at 20: the activity
\* starts at 20
C25_Witness ==
    /\ SuppliedTime(file.msgs, "file_id", "time_created") = Datetime(10)
    /\ SuppliedTime(file.msgs, "session", "start_time") = Datetime(20)
    /\ \E a \in ReturnedActivities :
          /\ a.start_date = IsoStr(20, TRUE)
          /\ a.start_date_local = IsoStr(20, FALSE)

(***************************************************************************)
(* Properties of the points of the track                                   *)
(***************************************************************************)
\* the point made from a record has, under key, the record's enhanced field
\* when the record carries both fields and its standard field when it
\* carries only that one
PrefersEnhanced(point, m, key, standard, enhanced) ==
    /\ ({standard, enhanced} \subseteq DOMAIN m.fields) =>
          (key \in DOMAIN point /\ point[key] = m.fields[enhanced].value)
    /\ (standard \in DOMAIN m.fields /\ enhanced \notin DOMAIN m.fields) =>
          (key \in DOMAIN point /\ point[key] = m.fields[standard].value)

\* C26: the point of every record that carries both altitude and
\* enhanced_altitude has the enhanced altitude, the point of every record
\* that carries both speed and enhanced_speed has the enhanced speed, and a
\* record with only the standard field gives the standard value, whatever
\* the other records of the file carry
C26_EnhancedPreferred ==
    \A a \in ReturnedActivities :
        LET records == RecordsOf(file.msgs) IN
        /\ Len(a.gps_track) = Len(records)
        /\ \A i \in 1..Len(records) :
              /\ PrefersEnhanced(a.gps_track[i], records[i], "altitude",
                                 "altitude", "enhanced_altitude")
              /\ PrefersEnhanced(a.gps_track[i], records[i], "speed",
                                 "speed", "enhanced_speed")

\* a record with both altitudes and both speeds followed by one with the
\* standard fields only: the first point has 12 m and 4 m/s, the second 10 m
\* and 3 m/s
C26_Witness ==
    /\ file.msgs = <<PrecisionMsg(Num(10), Num(12), Num(3), Num(4)),
                     PrecisionMsg(Num(10), Absent, Num(3), Absent)>>
    /\ \E a \in ReturnedActivities :
          /\ a.gps_track[1]["altitude"] = Num(12)
          /\ a.gps_track[1]["speed"] = Num(4)
          /\ a.gps_track[2]["altitude"] = Num(10)
          /\ a.gps_track[2]["speed"] = Num(3)

(***************************************************************************)
(* Properties of the laps, segments and zones                              *)
(***************************************************************************)
\* the value of a field of a decoded message as the parser stores it
StoredValue(m, field) == ConvertValue(m.fields[field].value)

\* C27: laps, segments, zones.heart_rate and zones.power are as long as the
\* file's lap, segment, hr_zone and power_zone messages are many, the k-th
\* entry is made from the k-th message of its kind, and the k-th lap and the
\* k-th segment have id k
C27_ListsFollowBuckets ==
    \A a \in ReturnedActivities :
        LET lap == OfType(file.msgs, Len(file.msgs), "lap")
            segment == OfType(file.msgs, Len(file.msgs), "segment")
            hr_zone == OfType(file.msgs, Len(file.msgs), "hr_zone")
            power_zone == OfType(file.msgs, Len(file.msgs), "power_zone")
        IN  /\ Len(a.laps) = Len(lap)
            /\ Len(a.segments) = Len(segment)
            /\ Len(a.zones.heart_rate) = Len(hr_zone)
            /\ Len(a.zones.power) = Len(power_zone)
            /\ \A k \in 1..Len(lap) :
                  /\ a.laps[k].id = k
                  /\ a.laps[k].distance = StoredValue(lap[k], "total_distance")
                  /\ a.laps[k].end_index = StoredValue(lap[k], "timestamp")
            /\ \A k \in 1..Len(segment) :
                  /\ a.segments[k].id = k
                  /\ a.segments[k].distance = StoredValue(segment[k], "total_distance")
                  /\ a.segments[k].end_index = StoredValue(segment[k], "timestamp")
            /\ \A k \in 1..Len(hr_zone) :
                  /\ a.zones.heart_rate[k].min = StoredValue(hr_zone[k], "low_bpm")
                  /\ a.zones.heart_rate[k].max = StoredValue(hr_zone[k], "high_bpm")
            /\ \A k \in 1..Len(power_zone) :
                  /\ a.zones.power[k].min = StoredValue(power_zone[k], "low_value")
                  /\ a.zones.power[k].max = StoredValue(power_zone[k], "high_value")

\* the 2000 m lap written before the 1000 m lap, a segment between them
C27_Witness ==
    /\ file.msgs = <<LapMsg(900, 2000), SegmentMsg(200, 300), LapMsg(400, 1000)>>
    /\ \E a \in ReturnedActivities :
          /\ Len(a.laps) = 2
          /\ a.laps[1].id = 1 /\ a.laps[1].distance = Num(2000)
          /\ a.laps[2].id = 2 /\ a.laps[2].distance = Num(1000)
          /\ Len(a.segments) = 1 /\ a.segments[1].id = 1

(***************************************************************************)
(* Properties of the rate-limit gate                                       *)
(***************************************************************************)
\* the requests that passed the gate and went on to the analysis
Passed == {r \in Requests : rpc[r] = "analysis"}

\* C28: with a positive daily limit, under any interleaving of the
\* requests of one client IP on one day, at most that many requests pass
\* the gate
C28_AtMostLimitPass ==
    rate_limit > 0 => Cardinality(Passed) <= rate_limit

(***************************************************************************)
(* Properties of the token functions                                       *)
(***************************************************************************)
\* the stored token the call read was inside the refresh buffer
InBuffer(c) == ~IsNone(c.stored) /\ c.stored.expires_at <= c.now + TokenMargin

\* the call answered as the claim says
ValidOrNothing(c) ==
    /\ InBuffer(c) =>
          /\ c.result # c.stored.access_token
          /\ c.result = IF YieldsTokens(c.outcome) THEN c.outcome.access_token
                        ELSE NoToken
    /\ IsNone(c.stored) => c.result = NoToken

\* C29: no call of get_valid_token or get_athlete_token returns a stored
\* access token that expires at or before now + 300 s; with the stored token
\* in that window the call returns the newly issued token when the refresh
\* yielded an access token, a refresh token and an expiry, and None in every
\* other outcome
C29_ValidTokenOrNone ==
    ~IsNone(tcall) => ValidOrNothing(tcall)

(***************************************************************************)
(* Properties of upload_fit_file                                           *)
(***************************************************************************)
\* C30: when upload_fit_file has returned, no file is left at the path it
\* saved the upload to, whichever way it went (validation failure, parse
\* failure, successful parse, an exception in any step), and what it
\* returned is a rendered page, no exception having left it
C30_UploadLeavesNoFile ==
    upc = "done" =>
        /\ ~disk.exists
        /\ ~IsNone(response)
        /\ response.template = "athlete_profile.html"
        /\ ~escaped

\* an upload that was saved, validated, parsed to a result and displayed
C30_Witness ==
    /\ upc = "done"
    /\ vtrace # <<>>
    /\ vresult.is_valid
    /\ returned # <<>>
    /\ ~IsNone(returned[1].value)
    /\ response = Rendered(None)
    /\ ~disk.exists

====
